---- MODULE Spec2Model ----
(***************************************************************************)
(* The QuakeC virtual machine of richter (src/progs/mod.rs): the execution *)
(* context (pc, current_function, call stack, local stack), the globals    *)
(* and the entity list, driven by a host that loads one program and calls  *)
(* execute_program on its functions; with it the string table and the     *)
(* loader of the same file.                                                *)
(*                                                                         *)
(* A word (one 4-byte slot) is modelled as an integer.  The float view of  *)
(* a word counts twentieths (30 is 1.5, 45 is 2.25, 75 is 3.75, 2 is 0.1); *)
(* the integer, entity, field and function views read the integer itself.  *)
(* In both views the all-zero word is 0.                                   *)
(***************************************************************************)
EXTENDS Integers, Sequences, FiniteSets, TLC

VARIABLES
    pc,                \* ExecutionContext.pc
    current_function,  \* ExecutionContext.current_function
    call_stack,        \* ExecutionContext.call_stack, top at the end
    local_stack,       \* ExecutionContext.local_stack, top at the end
    globals,           \* Globals: the word array
    entities,          \* EntityList: entity id -> field offset -> word
    status,            \* "idle", "running", "ok", "err" or "panic"
    err,               \* the message of the error or panic, "" otherwise
    runaway,           \* execute_program's local runaway counter
    exit_depth,        \* execute_program's local exit_depth
    f_arg,             \* the f the host passed to the current execute_program
    calls,             \* number of execute_program calls the host has made
    globals_at_entry,  \* history: globals when the current call started
    entities_at_entry, \* history: entities when the current call started
    depth_at_entry,    \* history: <<call_stack.len(), local_stack.len()>> then
    context_at_entry,  \* history: pc, current_function and call_stack then
    dispatched,        \* history: statements the current call has dispatched
    globals_at_enter,  \* history: for each frame of the call stack, globals
                       \* immediately before the enter_function that pushed it
    lump,              \* StringTable.lump, a sequence of bytes
    byte_count,        \* StringTable.byte_count
    table,             \* StringTable.table: id -> inserted string
    inserts,           \* history: the inserts made, <<value, id returned>>
    table_status,      \* "ok", or "panic" once a string table call panicked
    found,             \* history: the last find made since the last insert,
                       \* its target and what it returned
    load_input,        \* what the buffer handed to load holds
    load_result,       \* what load made of it
    parse_input,       \* the text handed to Action::from_str
    parse_result,      \* what Action::from_str made of it
    bind_target,       \* the BindTarget whose to_string is taken
    bind_text,         \* what BindTarget::to_string made of it
    screenshot_path,   \* the Option<PathBuf> shared with cmd_screenshot
    cmd_args,          \* history: the arguments of the last screenshot command
    cmd_output,        \* the String the last screenshot command returned
    bindings,          \* GameInput.bindings: BindInput -> Option<BindTarget>
    action_states,     \* GameInput.action_states: Action -> bool
    mouse_delta,       \* GameInput.mouse_delta
    impulse,           \* GameInput.impulse
    console,           \* the texts stuffed into the Console, oldest first
    game_op            \* history: the last operation on the GameInput

vm_vars == <<pc, current_function, call_stack, local_stack, globals, entities,
             status, err, runaway, exit_depth, f_arg, calls,
             globals_at_entry, entities_at_entry, depth_at_entry,
             context_at_entry, dispatched, globals_at_enter>>

string_vars == <<lump, byte_count, table, inserts, table_status, found>>

loader_vars == <<load_input, load_result>>

\* The client: input and commands
game_vars == <<bindings, action_states, mouse_delta, impulse, console, game_op>>

input_vars == <<parse_input, parse_result, bind_target, bind_text,
                screenshot_path, cmd_args, cmd_output, game_vars>>

vars == <<vm_vars, string_vars, loader_vars, input_vars>>

----------------------------------------------------------------------------
(* Program constants *)

VERSION == 6
CRC == 5927
SAVE_GLOBAL == 32768
QPointer == 7
MAX_CALL_STACK_DEPTH == 32
MAX_LOCAL_STACK_DEPTH == 2048
RunawayStart == 100000

\* globals.rs and functions.rs (not among the sources): the reserved layout
GLOBAL_ADDR_RETURN == 1
GLOBAL_ADDR_ARG_0 == 4
GLOBAL_STATIC_START == 28
GLOBAL_STATIC_COUNT == 64
MAX_ARGS == 8
\* GlobalAddrEntity::Self_ and GlobalAddrFloat::Time, the first well-known
\* globals after the argument slots
GLOBAL_ADDR_SELF == 28
GLOBAL_ADDR_TIME == 31
\* entity.rs (not among the sources): FieldAddrFloat::FrameId and
\* FieldAddrFloat::NextThink, two words of the entity record
FIELD_FRAME == 1
FIELD_NEXTTHINK == 2
\* 0.1 in the float view
TENTH == 2
\* functions.rs: the built-in ids are 1 .. 78; random is 7 and cvar 45
LastBuiltinId == 78
BUILTIN_RANDOM == 7
BUILTIN_CVAR == 45

----------------------------------------------------------------------------
(* Bounds of the model *)

NumGlobals == 64      \* words in the globals lump
NumEntities == 3      \* entities in the entity list
EntStride == 3        \* words per entity (ent_addr_count)
MaxLocals == 3        \* largest `locals` among the frame-test functions
MaxCalls == 2         \* execute_program calls the host makes on one context

GlobalAddrs == 0 .. (NumGlobals - 1)
EntityIds == 0 .. (NumEntities - 1)
FieldAddrs == 0 .. (EntStride - 1)

----------------------------------------------------------------------------
(* The loaded program: addresses of its globals *)

G_X == 32          \* first operand / condition / value to store
G_Y == 33          \* second operand / field address
G_Z == 34          \* result
G_W == 35          \* entity-field address produced by `address`
G_PLUS2 == 36      \* the immediate 2 (a jump delta)
G_MINUS1 == 37     \* the immediate -1 (a jump delta)
G_ZERO == 38       \* the immediate 0 (a jump delta)
G_CALLEE == 39     \* function variable called by F_CALLER
G_SELFREC == 40    \* the immediate F_REC (a function id)
G_ENT == 41        \* entity id operand of `address`
G_NEXT == 42       \* function id F_RR stores into G_CALLEE
G_NEXT2 == 43      \* function id F_RR stores into G_NEXT
G_LOCALS == 44     \* arg_start of the frame-test functions
G_FAR == 48        \* the immediate NumStatements (a jump delta)
G_BACK == 49       \* the immediate -NumStatements (a jump delta)

Stmt(o, x, y, z) == [op |-> o, a |-> x, b |-> y, c |-> z]

\* The statements of the functions written out one by one
ProgramText ==
    << Stmt("Done", 0, 0, 0),                    \*  0  function 0
       Stmt("AddF", G_X, G_Y, G_Z),              \*  1  F_ADD
       Stmt("Return", G_Z, 0, 0),                \*  2
       Stmt("IfNot", G_X, G_PLUS2, 0),           \*  3  F_LOOP
       Stmt("Goto", G_MINUS1, 0, 0),             \*  4
       Stmt("Return", 0, 0, 0),                  \*  5
       Stmt("Goto", G_ZERO, 0, 0),               \*  6  F_SELFJUMP
       Stmt("Return", 0, 0, 0),                  \*  7
       Stmt("If", G_X, G_PLUS2, 0),              \*  8  F_IF
       Stmt("Return", G_MINUS1, 0, 0),           \*  9
       Stmt("Return", G_PLUS2, 0, 0),            \* 10
       Stmt("Call0", G_CALLEE, 0, 0),            \* 11  F_CALLER
       Stmt("Return", G_Z, 0, 0),                \* 12
       Stmt("Address", G_ENT, G_Y, G_W),         \* 13  F_ADDR
       Stmt("StorePF", G_X, G_W, 0),             \* 14
       Stmt("Return", 0, 0, 0),                  \* 15
       Stmt("Call0", G_SELFREC, 0, 0),           \* 16  F_REC
       Stmt("Call0", G_SELFREC, 0, 0),           \* 17
       Stmt("Return", 0, 0, 0),                  \* 18
       Stmt("StoreF", G_X, G_Z, 1),              \* 19  F_BADSTORE
       Stmt("Return", 0, 0, 0),                  \* 20
       Stmt("Return", G_LOCALS, G_LOCALS + 1, G_LOCALS + 2),  \* 21  F_VEC
       Stmt("Done", 0, 0, 0),                    \* 22  frame tests, locals = 0
       Stmt("AddF", G_LOCALS, G_LOCALS, G_LOCALS), \* 23 frame tests, locals > 0
       Stmt("Return", G_LOCALS, 0, 0),           \* 24
       Stmt("Call1", G_CALLEE, 0, 0),            \* 25  F_CALL1
       Stmt("Return", GLOBAL_ADDR_RETURN, GLOBAL_ADDR_RETURN + 1,
            GLOBAL_ADDR_RETURN + 2),             \* 26
       Stmt("LoadFld", G_ENT, G_Y, G_Z),         \* 27  F_LOADFLD
       Stmt("StorePFld", G_X, G_W, 0),           \* 28  F_STOREPFLD
       Stmt("Return", 0, 0, 0),                  \* 29
       Stmt("StoreF", G_X, G_LOCALS, 0),         \* 30  F_RR
       Stmt("StoreFnc", G_NEXT, G_CALLEE, 0),    \* 31
       Stmt("StoreFnc", G_NEXT2, G_NEXT, 0),     \* 32
       Stmt("Call1", G_CALLEE, 0, 0),            \* 33
       Stmt("AddF", G_LOCALS, G_LOCALS, G_LOCALS), \* 34
       Stmt("Return", G_LOCALS, 0, 0),           \* 35
       Stmt("Return", GLOBAL_ADDR_RETURN + 1, GLOBAL_ADDR_RETURN + 2,
            GLOBAL_ADDR_RETURN),                 \* 36  F_ROT
       Stmt("Return", G_X, G_Y, G_Z),            \* 37  F_SLOT, F_BIG ..
       Stmt("If", G_X, G_PLUS2, 0),              \* 38  F_JUMP
       Stmt("Return", G_MINUS1, 0, 0),           \* 39
       Stmt("IfNot", G_ZERO, G_MINUS1, 0),       \* 40
       Stmt("Goto", G_PLUS2, 0, 0),              \* 41  F_JUMP + 1
       Stmt("Return", G_PLUS2, 0, 0),            \* 42
       Stmt("Goto", G_MINUS1, 0, 0),             \* 43
       Stmt("Goto", -1, 0, 0),                   \* 44  F_JUMP + 2
       Stmt("If", G_X, -1, 0),                   \* 45  F_JUMP + 3
       Stmt("IfNot", G_ZERO, -1, 0),             \* 46  F_JUMP + 4
       Stmt("If", -1, G_PLUS2, 0),               \* 47  F_JUMP + 5
       Stmt("IfNot", -1, G_PLUS2, 0),            \* 48  F_JUMP + 6
       Stmt("StoreV", G_X, GLOBAL_ADDR_ARG_0, 0),  \* 49  F_STOREV
       Stmt("Return", 0, 0, 0),                  \* 50
       Stmt("StoreV", G_X, G_X + 1, 0),          \* 51  F_STOREV + 1
       Stmt("Return", 0, 0, 0),                  \* 52
       Stmt("StoreV", G_X + 1, G_X, 0),          \* 53  F_STOREV + 2
       Stmt("Return", 0, 0, 0),                  \* 54
       Stmt("StoreV", GLOBAL_ADDR_ARG_0, GLOBAL_ADDR_ARG_0 + 1, 0),  \* 55  F_STOREV + 3
       Stmt("Return", 0, 0, 0),                  \* 56
       Stmt("State", G_X, 0, 0),                 \* 57  F_STATE
       Stmt("Return", 0, 0, 0),                  \* 58
       Stmt("State", -1, 0, 0),                  \* 59  F_STATE + 1
       Stmt("Return", 0, 0, 0) >>                \* 60

\* The store functions: `<store> G_X dest arg3; return`, one for each store
\* opcode and each third argument; a direct store goes to G_LOCALS.., an
\* indirect one through the entity-field address in G_W
DirectStores == <<"StoreF", "StoreV", "StoreS", "StoreEnt", "StoreFld",
                  "StoreFnc">>
IndirectStores == <<"StorePF", "StorePV", "StorePS", "StorePEnt", "StorePFnc">>
StoreOps == DirectStores \o IndirectStores
StoreArg3s == <<0, 1, -1>>

NumStoreFns == Len(StoreOps) * Len(StoreArg3s)
StoreOpOf(k) == StoreOps[(k \div Len(StoreArg3s)) + 1]
StoreArg3Of(k) == StoreArg3s[(k % Len(StoreArg3s)) + 1]

StoreStatements ==
    [i \in 1 .. (2 * NumStoreFns) |->
        LET k == (i - 1) \div 2
        IN  IF i % 2 = 0 THEN Stmt("Return", 0, 0, 0)
            ELSE Stmt(StoreOpOf(k), G_X,
                      IF k < Len(DirectStores) * Len(StoreArg3s)
                          THEN G_LOCALS ELSE G_W,
                      StoreArg3Of(k))]

\* The last statements of the program: a jump past the end of the
\* statements, a jump to before their start, and a last statement that is
\* no return
TailText ==
    << Stmt("Goto", G_FAR, 0, 0),
       Stmt("Goto", G_BACK, 0, 0),
       Stmt("AddF", G_X, G_Y, G_Z) >>

\* Functions.statements; statement index i is Statements[i + 1]
Statements == ProgramText \o StoreStatements \o TailText

NumStatements == Len(Statements)

\* Function ids
F_ADD == 1
F_LOOP == 2
F_SELFJUMP == 3
F_IF == 4
F_CALLER == 5
F_ADDR == 6
F_REC == 7
F_BADSTORE == 8
F_VEC == 9
F_CALL1 == 10      \* call1 of the function variable, result passed on
F_CVAR == 11       \* the built-in cvar
F_RANDOM == 12     \* the built-in random
F_LOADFLD == 13    \* load_fld, then storep_fld
F_STOREPFLD == 14  \* storep_fld
F_STORE == 15      \* first id of the store functions
StoreFns == F_STORE .. (F_STORE + NumStoreFns - 1)
F_FRAME == F_STORE + NumStoreFns   \* first id of the frame-test functions

FnDef(first, start, nlocals, n, sz) ==
    [kind |-> "QuakeC", first_statement |-> first, arg_start |-> start,
     locals |-> nlocals, argc |-> n, argsz |-> sz]

\* A definition whose first_statement was negative on disk
BuiltinDef(b, n, sz) ==
    [kind |-> "BuiltIn", builtin |-> b, arg_start |-> 0, locals |-> 0,
     argc |-> n, argsz |-> sz]

NoArgs == <<0, 0, 0, 0, 0, 0, 0, 0>>
ArgSz(s0, s1) == <<s0, s1, 0, 0, 0, 0, 0, 0>>

\* argc and argsz of the frame-test functions
FrameVariants ==
    << [argc |-> 0, argsz |-> NoArgs],
       [argc |-> 1, argsz |-> ArgSz(0, 0)],
       [argc |-> 1, argsz |-> ArgSz(1, 0)],
       [argc |-> 1, argsz |-> ArgSz(3, 0)],
       [argc |-> 2, argsz |-> ArgSz(1, 1)] >>

NumFrameFns == (MaxLocals + 1) * Len(FrameVariants)
FrameFns == F_FRAME .. (F_FRAME + NumFrameFns - 1)
FrameLocals(f) == (f - F_FRAME) % (MaxLocals + 1)
FrameVariant(f) == FrameVariants[((f - F_FRAME) \div (MaxLocals + 1)) + 1]

\* The functions after the frame-test functions
F_RR == F_FRAME + NumFrameFns   \* recursion that returns, one local
F_ROT == F_RR + 1               \* return of the rotated return slot
F_SLOT == F_RR + 2              \* locals region 0 .. 4, over the return slot
F_JUMP == F_RR + 3              \* first id of the seven jump functions
F_STOREV == F_JUMP + 7          \* first id of the four store_v functions
F_STATE == F_STOREV + 4         \* first id of the two state functions
F_BIG == F_STATE + 2            \* first id of the four functions whose
                                \* locals region is larger than the globals

\* locals of the functions F_BIG ..: at the limit of the local stack and
\* one above, on an empty local stack and on one that holds the words a
\* failed call of such a function left on it
BigLocals ==
    <<MAX_LOCAL_STACK_DEPTH - (NumGlobals - G_LOCALS),
      MAX_LOCAL_STACK_DEPTH - (NumGlobals - G_LOCALS) + 1,
      MAX_LOCAL_STACK_DEPTH, MAX_LOCAL_STACK_DEPTH + 1>>

\* first id of the four functions that leave the statements: by a jump
\* forward, by a jump backward, past the last statement, at their entry
F_OOB == F_BIG + Len(BigLocals)

NumFunctions == F_OOB + 4
FunctionIds == 0 .. (NumFunctions - 1)

\* Functions.defs
Defs(f) ==
    CASE f = 0 -> FnDef(0, 0, 0, 0, NoArgs)
      [] f = F_ADD -> FnDef(1, 0, 0, 0, NoArgs)
      [] f = F_LOOP -> FnDef(3, 0, 0, 0, NoArgs)
      [] f = F_SELFJUMP -> FnDef(6, 0, 0, 0, NoArgs)
      [] f = F_IF -> FnDef(8, 0, 0, 0, NoArgs)
      [] f = F_CALLER -> FnDef(11, 0, 0, 0, NoArgs)
      [] f = F_ADDR -> FnDef(13, 0, 0, 0, NoArgs)
      [] f = F_REC -> FnDef(16, G_LOCALS, 1, 0, NoArgs)
      [] f = F_BADSTORE -> FnDef(19, G_LOCALS, 2, 0, NoArgs)
      [] f = F_VEC -> FnDef(21, G_LOCALS, 3, 1, ArgSz(3, 0))
      [] f = F_CALL1 -> FnDef(25, 0, 0, 0, NoArgs)
      [] f = F_CVAR -> BuiltinDef("Cvar", 1, ArgSz(1, 0))
      [] f = F_RANDOM -> BuiltinDef("Random", 0, NoArgs)
      [] f = F_LOADFLD -> FnDef(27, 0, 0, 0, NoArgs)
      [] f = F_STOREPFLD -> FnDef(28, 0, 0, 0, NoArgs)
      [] f \in StoreFns
            -> FnDef(Len(ProgramText) + 2 * (f - F_STORE), 0, 0, 0, NoArgs)
      [] f = F_RR -> FnDef(30, G_LOCALS, 1, 0, NoArgs)
      [] f = F_ROT -> FnDef(36, 0, 0, 0, NoArgs)
      [] f = F_SLOT -> FnDef(37, 0, 5, 0, NoArgs)
      [] f \in F_JUMP .. (F_JUMP + 1)
            -> FnDef(38 + 3 * (f - F_JUMP), 0, 0, 0, NoArgs)
      [] f \in (F_JUMP + 2) .. (F_JUMP + 6)
            -> FnDef(44 + (f - (F_JUMP + 2)), 0, 0, 0, NoArgs)
      [] f \in F_STOREV .. (F_STOREV + 3)
            -> FnDef(49 + 2 * (f - F_STOREV), 0, 0, 0, NoArgs)
      [] f \in F_STATE .. (F_STATE + 1)
            -> FnDef(57 + 2 * (f - F_STATE), 0, 0, 0, NoArgs)
      [] f \in F_BIG .. (F_BIG + Len(BigLocals) - 1)
            -> FnDef(37, G_LOCALS, BigLocals[f - F_BIG + 1], 0, NoArgs)
      [] f \in F_OOB .. (F_OOB + 3)
            -> FnDef(NumStatements - Len(TailText) + (f - F_OOB), 0, 0, 0,
                     NoArgs)
      [] OTHER -> FnDef(IF FrameLocals(f) = 0 THEN 22 ELSE 23, G_LOCALS,
                        FrameLocals(f), FrameVariant(f).argc,
                        FrameVariant(f).argsz)

\* The globals lump of the program: immediates live in globals
ProgramGlobals ==
    [a \in GlobalAddrs |->
        CASE a = G_PLUS2 -> 2
          [] a = G_MINUS1 -> -1
          [] a = G_ZERO -> 0
          [] a = G_SELFREC -> F_REC
          [] a = G_FAR -> NumStatements
          [] a = G_BACK -> -NumStatements
          [] OTHER -> 0]

----------------------------------------------------------------------------
(* Globals and EntityList accessors (globals.rs, entity.rs) *)

\* All accessors validate 0 <= ofs < len
AddrOk(ofs) == ofs \in GlobalAddrs

EntityOk(e) == e \in EntityIds

FieldOk(fld) == fld \in FieldAddrs

\* EntityList::ent_fld_addr_to_i32: pack(e, f) = e * stride + f
ent_fld_addr_to_i32(e, fld) == e * EntStride + fld

\* EntityList::ent_fld_addr_from_i32: unpack(n) = (n / stride, n % stride)
ent_fld_addr_from_i32(n) ==
    [entity_id |-> n \div EntStride, field_addr |-> n % EntStride]

\* Functions::get_def succeeds on the ids of the function table
FunctionIdOk(f) == f \in FunctionIds

----------------------------------------------------------------------------
(* StringTable.  A string is a sequence of bytes, a byte a one-letter       *)
(* string; NUL is the zero byte that ends a string of the lump.             *)

NUL == "NUL"

\* The string lump of the loaded program: "", "sv_gravity", "temp1"
ProgramLump ==
    <<NUL, "s", "v", "_", "g", "r", "a", "v", "i", "t", "y", NUL,
      "t", "e", "m", "p", "1", NUL>>

S_EMPTY == 0          \* id of ""
S_SV_GRAVITY == 1     \* id of "sv_gravity"
S_TEMP1 == 12         \* id of "temp1"

\* Option<T>
Some(v) == [some |-> TRUE, val |-> v]
None == [some |-> FALSE]

\* Result<T, ProgsError>
Ok(v) == [ok |-> TRUE, val |-> v]
Err(m) == [ok |-> FALSE, msg |-> m]

\* The string table as one value
StringTable == [lump |-> lump, byte_count |-> byte_count, table |-> table]

\* StringTable::new
StringTable_new(data) ==
    [lump |-> data, byte_count |-> Len(data), table |-> <<>>]

\* for i in id.0..self.lump.len(): the first zero byte at or after id,
\* id itself when there is none
NulByte(l, id) ==
    LET nuls == {i \in id .. (Len(l) - 1) : l[i + 1] = NUL}
    IN  IF nuls = {} THEN id
        ELSE CHOOSE i \in nuls : \A j \in nuls : i <= j

\* StringTable::get
StringTable_get(t, id) ==
    IF id < Len(t.lump)
        THEN Some(SubSeq(t.lump, id + 1, NulByte(t.lump, id)))
        ELSE IF id \in DOMAIN t.table THEN Some(t.table[id]) ELSE None

\* str::find: the first byte offset at which target occurs in l
str_find(l, target) ==
    LET at == {i \in 0 .. (Len(l) - Len(target)) :
                  SubSeq(l, i + 1, i + Len(target)) = target}
    IN  IF at = {} THEN None
        ELSE Some(CHOOSE i \in at : \A j \in at : i <= j)

\* Mutant of StringTable_find: the lump is not searched
StringTable_find_TableOnly(t, target) ==
    LET keys == {k \in DOMAIN t.table : t.table[k] = target}
    IN  IF keys = {} THEN {None} ELSE {Some(k) : k \in keys}

\* StringTable::find: what it may return.  The inserted strings are
\* searched in the iteration order of the HashMap, which is any order: of
\* several ids with the same string any one may come back.
StringTable_find(t, target) ==
    LET in_lump == str_find(t.lump, target)
        keys == {k \in DOMAIN t.table : t.table[k] = target}
    IN  IF in_lump.some THEN {in_lump}
        ELSE IF keys = {} THEN {None}
        ELSE {Some(k) : k \in keys}

\* HashMap::insert: the value under id is s afterwards, whatever it was
MapInsert(m, id, s) ==
    [k \in DOMAIN m \cup {id} |-> IF k = id THEN s ELSE m[k]]

\* StringTable::insert: the table afterwards, the id, and whether the call
\* panicked ("duplicate ID in string table") instead of returning the id
StringTable_insert(t, value) ==
    LET id == t.byte_count
    IN  IF id \in DOMAIN t.table
            THEN [t |-> [t EXCEPT !.table = MapInsert(@, id, value)],
                  id |-> id, panicked |-> TRUE]
            ELSE [t |-> [t EXCEPT !.table = MapInsert(@, id, value),
                                  !.byte_count = @ + Len(value)],
                  id |-> id, panicked |-> FALSE]

\* `id as i32` and `value as usize` between StringId (usize) and i32
I32Max == 2147483647
AsI32(n) == IF n <= I32Max THEN n ELSE ((n - I32Max) - I32Max) - 2

\* StringTable::id_from_i32
StringTable_id_from_i32(t, value) ==
    IF value < 0 THEN Err("id < 0")
    ELSE IF value < Len(t.lump) \/ value \in DOMAIN t.table THEN Ok(value)
    ELSE Err("no string with ID")

\* CvarRegistry (console, not among the sources): the cvars the host
\* registered, by name, and their values (800.0 in twentieths)
V_GRAVITY == 16000
SvGravity == <<"s", "v", "_", "g", "r", "a", "v", "i", "t", "y">>
Cvars == [name \in {SvGravity} |-> V_GRAVITY]

\* CvarRegistry::get_value
CvarRegistry_get_value(name) ==
    IF name \in DOMAIN Cvars THEN Ok(Cvars[name]) ELSE Err("no such cvar")

----------------------------------------------------------------------------
(* load.  Of the buffer the model keeps the fields load decides on; the     *)
(* lumps are where the header says, the string lump is UTF-8 and every      *)
(* name id resolves in it.                                                  *)

\* type_ & SAVE_GLOBAL != 0
HasSaveFlag(type_) == (type_ \div SAVE_GLOBAL) % 2 = 1

\* type_ & !SAVE_GLOBAL
WithoutSaveFlag(type_) == IF HasSaveFlag(type_) THEN type_ - SAVE_GLOBAL ELSE type_

\* Type::from_u16: Some for QVoid = 0 .. QPointer = 7
TypeKnown(t) == t \in 0 .. QPointer

\* BuiltinFunctionId::from_i32
BuiltinKnown(x) == x \in 1 .. LastBuiltinId

\* ops.rs: the opcode enum in the order of its numbers, done = 0
Opcodes ==
    <<"Done", "MulF", "MulV", "MulFV", "MulVF", "Div", "AddF", "AddV",
      "SubF", "SubV", "EqF", "EqV", "EqS", "EqEnt", "EqFnc", "NeF", "NeV",
      "NeS", "NeEnt", "NeFnc", "Le", "Ge", "Lt", "Gt", "LoadF", "LoadV",
      "LoadS", "LoadEnt", "LoadFld", "LoadFnc", "Address", "StoreF",
      "StoreV", "StoreS", "StoreEnt", "StoreFld", "StoreFnc", "StorePF",
      "StorePV", "StorePS", "StorePEnt", "StorePFld", "StorePFnc", "Return",
      "NotF", "NotV", "NotS", "NotEnt", "NotFnc", "If", "IfNot", "Call0",
      "Call1", "Call2", "Call3", "Call4", "Call5", "Call6", "Call7", "Call8",
      "State", "Goto", "And", "Or", "BitAnd", "BitOr">>

\* Statement::new, Opcode::from_u16
OpcodeKnown(op) == op \in 0 .. (Len(Opcodes) - 1)

\* let kind = match src.read_i32() { .. }
FunctionKindOf(x) ==
    IF x < 0 THEN [kind |-> "BuiltIn", builtin |-> -x]
    ELSE [kind |-> "QuakeC", first_statement |-> x]

\* What load yields: the handles, an Err or a panic
Loaded(data) ==
    [kind |-> "ok",
     defs |-> [i \in 1 .. Len(data.functions) |->
                  FunctionKindOf(data.functions[i])],
     statements |-> Len(data.statements)]
LoadErr(m) == [kind |-> "err", msg |-> m]
LoadPanic(m) == [kind |-> "panic", msg |-> m]
NotLoaded == [kind |-> "none"]
LumpRead == [kind |-> "read"]

\* for _ in 0..fielddef_lump.count: the first field definition load stops at
RECURSIVE load_field_defs(_, _)
load_field_defs(types, i) ==
    IF i > Len(types) THEN LumpRead
    ELSE IF HasSaveFlag(types[i])
        THEN LoadErr("Save flag not allowed in field definitions")
    ELSE IF ~TypeKnown(types[i]) THEN LoadPanic("unwrap on None")
    ELSE load_field_defs(types, i + 1)

\* The rest of load once the field definitions are read
load_globals(data) ==
    IF data.globals_count < GLOBAL_STATIC_COUNT
        THEN LoadErr("Global count lower than static global count")
        ELSE Loaded(data)

\* load
load(data) ==
    IF data.version # VERSION THEN LoadPanic("assertion failed")
    ELSE IF data.crc # CRC THEN LoadPanic("assertion failed")
    ELSE IF \E i \in 1 .. Len(data.functions) :
                data.functions[i] < 0 /\ ~BuiltinKnown(-data.functions[i])
        THEN LoadErr("Invalid built-in function ID")
    ELSE IF \E i \in 1 .. Len(data.statements) :
                ~OpcodeKnown(data.statements[i])
        THEN LoadErr("unknown opcode")
    ELSE IF \E i \in 1 .. Len(data.globaldefs) :
                ~TypeKnown(WithoutSaveFlag(data.globaldefs[i]))
        THEN LoadPanic("unwrap on None")
    ELSE LET fields == load_field_defs(data.fielddefs, 1)
         IN  IF fields = LumpRead THEN load_globals(data) ELSE fields

\* The number of an opcode and of a built-in on disk
OpcodeNumber(op) == CHOOSE n \in 0 .. (Len(Opcodes) - 1) : Opcodes[n + 1] = op
BuiltinNumber(b) == IF b = "Cvar" THEN BUILTIN_CVAR ELSE BUILTIN_RANDOM

\* The buffer of the program the machine runs
ProgramData ==
    [version |-> VERSION, crc |-> CRC,
     functions |-> [i \in 1 .. NumFunctions |->
                      IF Defs(i - 1).kind = "BuiltIn"
                          THEN -BuiltinNumber(Defs(i - 1).builtin)
                          ELSE Defs(i - 1).first_statement],
     statements |-> [i \in 1 .. NumStatements |->
                       OpcodeNumber(Statements[i].op)],
     globaldefs |-> <<>>, fielddefs |-> <<>>,
     globals_count |-> NumGlobals]

\* The buffers tried: the header fields right and wrong, function lists
\* with a known and an unknown built-in and entry points inside and past
\* the statements, a known and an unknown opcode, definitions with and
\* without the save flag and of an unknown type, a globals lump one word
\* too small
LoadInputs ==
    [version : {VERSION - 1, VERSION},
     crc : {CRC, CRC + 1},
     functions : {<<0>>, <<0, 1>>, <<0, -BUILTIN_CVAR>>,
                  <<0, -(LastBuiltinId + 1)>>, <<0, 2>>, <<0, 1, 5>>},
     statements : {<<0, OpcodeNumber("Return")>>, <<0, Len(Opcodes)>>},
     globaldefs : {<<>>, <<2, 2 + SAVE_GLOBAL>>, <<QPointer + 1>>},
     fielddefs : {<<>>, <<2>>, <<2, 2 + SAVE_GLOBAL>>,
                  <<QPointer + 1, 2 + SAVE_GLOBAL>>,
                  <<2 + SAVE_GLOBAL, QPointer + 1>>},
     globals_count : {GLOBAL_STATIC_COUNT - 1, GLOBAL_STATIC_COUNT}]


----------------------------------------------------------------------------
(* Action (client/input/game.rs): the names of the actions.  A text is a    *)
(* sequence of one-letter strings.                                          *)

Actions ==
    {"Forward", "Back", "MoveLeft", "MoveRight", "MoveUp",
     "MoveDown", "LookUp", "LookDown", "Left", "Right",
     "Speed", "Jump", "Strafe", "Attack", "Use",
     "KLook", "MLook", "ShowScores", "ShowTeamScores"}

LowerCase == <<"a", "b", "c", "d", "e", "f", "g", "h", "i", "j", "k", "l", "m",
               "n", "o", "p", "q", "r", "s", "t", "u", "v", "w", "x", "y", "z">>
UpperCase == <<"A", "B", "C", "D", "E", "F", "G", "H", "I", "J", "K", "L", "M",
               "N", "O", "P", "Q", "R", "S", "T", "U", "V", "W", "X", "Y", "Z">>

\* char::to_uppercase, char::to_lowercase on one letter
UpperOf(c) ==
    IF \E k \in 1 .. Len(LowerCase) : LowerCase[k] = c
        THEN UpperCase[CHOOSE k \in 1 .. Len(LowerCase) : LowerCase[k] = c]
        ELSE c
LowerOf(c) ==
    IF \E k \in 1 .. Len(UpperCase) : UpperCase[k] = c
        THEN LowerCase[CHOOSE k \in 1 .. Len(UpperCase) : UpperCase[k] = c]
        ELSE c

\* str::to_lowercase
to_lowercase(text) == [i \in 1 .. Len(text) |-> LowerOf(text[i])]

\* impl ToString for Action
Action_to_string(a) ==
    CASE a = "Forward" -> <<"f", "o", "r", "w", "a", "r", "d">>
      [] a = "Back" -> <<"b", "a", "c", "k">>
      [] a = "MoveLeft" -> <<"m", "o", "v", "e", "l", "e", "f", "t">>
      [] a = "MoveRight" -> <<"m", "o", "v", "e", "r", "i", "g", "h", "t">>
      [] a = "MoveUp" -> <<"m", "o", "v", "e", "u", "p">>
      [] a = "MoveDown" -> <<"m", "o", "v", "e", "d", "o", "w", "n">>
      [] a = "LookUp" -> <<"l", "o", "o", "k", "u", "p">>
      [] a = "LookDown" -> <<"l", "o", "o", "k", "d", "o", "w", "n">>
      [] a = "Left" -> <<"l", "e", "f", "t">>
      [] a = "Right" -> <<"r", "i", "g", "h", "t">>
      [] a = "Speed" -> <<"s", "p", "e", "e", "d">>
      [] a = "Jump" -> <<"j", "u", "m", "p">>
      [] a = "Strafe" -> <<"s", "t", "r", "a", "f", "e">>
      [] a = "Attack" -> <<"a", "t", "t", "a", "c", "k">>
      [] a = "Use" -> <<"u", "s", "e">>
      [] a = "KLook" -> <<"k", "l", "o", "o", "k">>
      [] a = "MLook" -> <<"m", "l", "o", "o", "k">>
      [] a = "ShowScores" -> <<"s", "h", "o", "w", "s", "c", "o", "r", "e", "s">>
      [] a = "ShowTeamScores" ->
            <<"s", "h", "o", "w", "t", "e", "a", "m", "s", "c", "o", "r", "e", "s">>

\* The match of Action::from_str on the text it is given
MatchActionName(name) ==
    CASE name = <<"f", "o", "r", "w", "a", "r", "d">> -> Ok("Forward")
      [] name = <<"b", "a", "c", "k">> -> Ok("Back")
      [] name = <<"m", "o", "v", "e", "l", "e", "f", "t">> -> Ok("MoveLeft")
      [] name = <<"m", "o", "v", "e", "r", "i", "g", "h", "t">> -> Ok("MoveRight")
      [] name = <<"m", "o", "v", "e", "u", "p">> -> Ok("MoveUp")
      [] name = <<"m", "o", "v", "e", "d", "o", "w", "n">> -> Ok("MoveDown")
      [] name = <<"l", "o", "o", "k", "u", "p">> -> Ok("LookUp")
      [] name = <<"l", "o", "o", "k", "d", "o", "w", "n">> -> Ok("LookDown")
      [] name = <<"l", "e", "f", "t">> -> Ok("Left")
      [] name = <<"r", "i", "g", "h", "t">> -> Ok("Right")
      [] name = <<"s", "p", "e", "e", "d">> -> Ok("Speed")
      [] name = <<"j", "u", "m", "p">> -> Ok("Jump")
      [] name = <<"s", "t", "r", "a", "f", "e">> -> Ok("Strafe")
      [] name = <<"a", "t", "t", "a", "c", "k">> -> Ok("Attack")
      [] name = <<"u", "s", "e">> -> Ok("Use")
      [] name = <<"k", "l", "o", "o", "k">> -> Ok("KLook")
      [] name = <<"m", "l", "o", "o", "k">> -> Ok("MLook")
      [] name = <<"s", "h", "o", "w", "s", "c", "o", "r", "e", "s">>
             -> Ok("ShowScores")
      [] name = <<"s", "h", "o", "w", "t", "e", "a", "m", "s", "c", "o", "r", "e", "s">>
             -> Ok("ShowTeamScores")
      [] OTHER -> Err("Invalid action name")

\* Mutant of Action_from_str: the text is matched as it is written
Action_from_str_AsWritten(text) == MatchActionName(text)

\* impl FromStr for Action
Action_from_str(text) == MatchActionName(to_lowercase(text))

\* enum BindTarget
BindAction(trigger, action) ==
    [kind |-> "Action", trigger |-> trigger, action |-> action]
ConsoleInput(text) == [kind |-> "ConsoleInput", text |-> text]

\* Mutant of BindTarget_to_string: the signs of the two triggers exchanged
BindTarget_to_string_SignsSwapped(target) ==
    IF target.kind = "Action"
        THEN (IF target.trigger = "Pressed" THEN <<"-">> ELSE <<"+">>)
                 \o Action_to_string(target.action)
        ELSE <<"\"">> \o target.text \o <<"\"">>

\* impl ToString for BindTarget
BindTarget_to_string(target) ==
    IF target.kind = "Action"
        THEN (IF target.trigger = "Pressed" THEN <<"+">> ELSE <<"-">>)
                 \o Action_to_string(target.action)
        ELSE <<"\"">> \o target.text \o <<"\"">>

\* cmd_screenshot (bin/quake-client/capture.rs).  A path is a sequence of
\* pieces of text; `now` is what Utc::now() reads, formatted.
Usage == "Usage: screenshot [PATH]"

\* format!("richter-{}.png", Utc::now().format("%FT%H-%M-%S"))
DefaultPath(now) == <<"richter-", now, ".png">>

\* Mutant of cmd_screenshot: the first of several arguments is taken
cmd_screenshot_FirstOfMany(path, args, now) ==
    IF Len(args) = 0 THEN [path |-> Some(DefaultPath(now)), out |-> ""]
    ELSE [path |-> Some(args[1]), out |-> ""]

\* The closure cmd_screenshot returns, called with args: the shared path
\* afterwards and the String returned
cmd_screenshot(path, args, now) ==
    IF Len(args) = 0 THEN [path |-> Some(DefaultPath(now)), out |-> ""]
    ELSE IF Len(args) = 1 THEN [path |-> Some(args[1]), out |-> ""]
    ELSE [path |-> path, out |-> Usage]

\* No screenshot asked for, no command run
CaptureIdle ==
    /\ screenshot_path = None
    /\ cmd_args = <<>>
    /\ cmd_output = ""

\* GameInput (client/input/game.rs).  Of enum BindInput the model has a key
\* and the two wheel inputs.
BindInputs == {"Key(W)", "MouseWheel(Up)", "MouseWheel(Down)"}

\* The GameInput as one record
GameInput ==
    [bindings |-> bindings, action_states |-> action_states,
     mouse_delta |-> mouse_delta, impulse |-> impulse, console |-> console]

\* GameInput::new
GameInput_new ==
    [bindings |-> [i \in BindInputs |-> None],
     action_states |-> [a \in Actions |-> FALSE],
     mouse_delta |-> <<0, 0>>,
     impulse |-> 0,
     console |-> <<>>]

\* GameInput::bind
bind(gi, input, target) == [gi EXCEPT !.bindings[input] = Some(target)]

\* Mutant of handle_input: the action is on whenever the input is pressed
handle_input_TriggerIgnored(gi, input, state) ==
    LET target == gi.bindings[input]
    IN  IF ~target.some THEN gi
        ELSE IF target.val.kind = "Action"
            THEN [gi EXCEPT !.action_states[target.val.action] =
                                (state = "Pressed")]
        ELSE IF state = "Pressed"
            THEN [gi EXCEPT !.console = Append(@, target.val.text)]
        ELSE gi

\* GameInput::handle_input
handle_input(gi, input, state) ==
    LET target == gi.bindings[input]
    IN  IF ~target.some THEN gi
        ELSE IF target.val.kind = "Action"
            THEN [gi EXCEPT !.action_states[target.val.action] =
                                (state = target.val.trigger)]
        ELSE IF state = "Pressed"
            THEN [gi EXCEPT !.console = Append(@, target.val.text)]
        ELSE gi

\* GameInput::handle_event, the DeviceEvent::MouseMotion arm
mouse_motion(gi, delta) ==
    [gi EXCEPT !.mouse_delta = <<@[1] + delta[1], @[2] + delta[2]>>]

\* u8::from_str as the impulse command calls it: an optional "+", then
\* decimal digits, the value at most 255
U8Max == 255
Digits == <<"0", "1", "2", "3", "4", "5", "6", "7", "8", "9">>
IsDigit(c) == \E d \in 1 .. Len(Digits) : Digits[d] = c
DigitValue(c) == (CHOOSE d \in 1 .. Len(Digits) : Digits[d] = c) - 1

RECURSIVE ParseDigits(_, _, _)
ParseDigits(text, i, acc) ==
    IF i > Len(text) THEN Ok(acc)
    ELSE IF ~IsDigit(text[i]) THEN Err("invalid digit found in string")
    ELSE LET n == acc * 10 + DigitValue(text[i])
         IN  IF n > U8Max THEN Err("number too large to fit in target type")
             ELSE ParseDigits(text, i + 1, n)

u8_from_str(text) ==
    IF Len(text) = 0 THEN Err("cannot parse integer from empty string")
    ELSE IF text = <<"+">> \/ text = <<"-">>
        THEN Err("invalid digit found in string")
    ELSE IF text[1] = "+" THEN ParseDigits(text, 2, 0)
    ELSE ParseDigits(text, 1, 0)

\* Mutant of cmd_impulse: a number that does not parse clears the impulse
cmd_impulse_ClearedOnError(imp, args) ==
    IF Len(args) = 1
        THEN LET i == u8_from_str(args[1])
             IN  IF i.ok THEN [impulse |-> i.val, out |-> ""]
                 ELSE [impulse |-> 0,
                       out |-> "Impulse must be a number between 0 and 255"]
    ELSE [impulse |-> imp, out |-> "usage: impulse [number]"]

\* The closure register_cmds inserts as "impulse", called with args: the
\* impulse afterwards and the String returned
cmd_impulse(imp, args) ==
    IF Len(args) = 1
        THEN LET i == u8_from_str(args[1])
             IN  IF i.ok THEN [impulse |-> i.val, out |-> ""]
                 ELSE [impulse |-> imp,
                       out |-> "Impulse must be a number between 0 and 255"]
    ELSE [impulse |-> imp, out |-> "usage: impulse [number]"]

\* Mutant of clear_mouse: the wheel inputs are pressed, not released
clear_mouse_WheelPressed(gi) ==
    [handle_input(handle_input(gi, "MouseWheel(Up)", "Pressed"),
                  "MouseWheel(Down)", "Pressed")
        EXCEPT !.mouse_delta = <<0, 0>>]

\* GameInput::clear_mouse
clear_mouse(gi) ==
    [handle_input(handle_input(gi, "MouseWheel(Up)", "Released"),
                  "MouseWheel(Down)", "Released")
        EXCEPT !.mouse_delta = <<0, 0>>]

\* GameInput::clear_impulse
clear_impulse(gi) == [gi EXCEPT !.impulse = 0]

\* GameInput::refresh
refresh(gi) == clear_impulse(clear_mouse(gi))

\* A GameInput just made, nothing done on it
GameIdle ==
    /\ bindings = GameInput_new.bindings
    /\ action_states = GameInput_new.action_states
    /\ mouse_delta = GameInput_new.mouse_delta
    /\ impulse = GameInput_new.impulse
    /\ console = GameInput_new.console
    /\ game_op = [op |-> "new"]

\* Nothing handed to Action::from_str, nothing parsed; no to_string taken
NotParsed == [ok |-> FALSE, msg |-> "none"]
InputIdle ==
    /\ parse_input = [action |-> "none", text |-> <<>>]
    /\ parse_result = NotParsed
    /\ bind_target = ConsoleInput(<<>>)
    /\ bind_text = None
    /\ CaptureIdle
    /\ GameIdle

----------------------------------------------------------------------------
(* The machine state the interpreter works on, as one record:               *)
(* st is "run" while no error was raised, then "err" or "panic".            *)

Machine ==
    [pc |-> pc, cf |-> current_function, cs |-> call_stack,
     ls |-> local_stack, g |-> globals, ents |-> entities,
     st |-> "run", msg |-> ""]

\* `?` on an Err: the error leaves the function, the state stays as it is
Fail(vm, m) == [vm EXCEPT !.st = "err", !.msg = m]

\* panic!, unwrap() on None, an index out of bounds
Panic(vm, m) == [vm EXCEPT !.st = "panic", !.msg = m]

\* Globals::put_bytes and the typed put_* : one word written at ofs
PutWord(vm, w, ofs) ==
    IF vm.st # "run" THEN vm
    ELSE IF ~AddrOk(ofs) THEN Fail(vm, "address")
    ELSE [vm EXCEPT !.g[ofs] = w]

\* Globals::get_string_id (globals.rs): the word at ofs as a string id; a
\* negative id and an id the string table cannot resolve are address errors
get_string_id(vm, ofs) ==
    IF ~AddrOk(ofs) THEN Err("address")
    ELSE StringTable_id_from_i32(StringTable, vm.g[ofs])

----------------------------------------------------------------------------
(* ExecutionContext::enter_function *)

\* Mutant of SaveLocals: one word more than def.locals is saved
RECURSIVE SaveLocals_OneMore(_, _, _)
SaveLocals_OneMore(vm, def, i) ==
    IF i > def.locals THEN vm
    ELSE IF ~AddrOk(def.arg_start + i) THEN Fail(vm, "address")
    ELSE SaveLocals_OneMore(
             [vm EXCEPT !.ls = Append(@, vm.g[def.arg_start + i])], def, i + 1)

\* save locals to stack: for i in 0..def.locals
RECURSIVE SaveLocals(_, _, _)
SaveLocals(vm, def, i) ==
    IF i >= def.locals THEN vm
    ELSE IF ~AddrOk(def.arg_start + i) THEN Fail(vm, "address")
    ELSE SaveLocals([vm EXCEPT !.ls = Append(@, vm.g[def.arg_start + i])],
                    def, i + 1)

\* The destination of one copied argument word
ArgDest(def, arg, component) == def.arg_start

\* for arg in 0..def.argc { for component in 0..def.argsz[arg] { .. } }
RECURSIVE CopyArgs(_, _, _, _)
CopyArgs(vm, def, arg, component) ==
    IF arg >= def.argc THEN vm
    ELSE IF arg >= MAX_ARGS THEN Panic(vm, "index out of bounds")
    ELSE IF component >= def.argsz[arg + 1] THEN CopyArgs(vm, def, arg + 1, 0)
    ELSE IF ~AddrOk(GLOBAL_ADDR_ARG_0 + arg * 3 + component)
         THEN Fail(vm, "address")
    ELSE LET val == vm.g[GLOBAL_ADDR_ARG_0 + arg * 3 + component]
             put == PutWord(vm, val, ArgDest(def, arg, component))
         IN  IF put.st # "run" THEN put
             ELSE CopyArgs(put, def, arg, component + 1)

\* The frame enter_function pushes
SavedFrame(vm) == [instr_id |-> vm.pc, func_id |-> vm.cf]

\* Mutant of enter_function: a local stack filled to its limit is refused
enter_function_FullIsOverflow(vm, f) ==
    IF ~FunctionIdOk(f) THEN Fail(vm, "no such function")
    ELSE
    LET def == Defs(f)
        pushed == [vm EXCEPT !.cs = Append(@, SavedFrame(vm))]
    IN  IF Len(pushed.cs) >= MAX_CALL_STACK_DEPTH
            THEN Fail(pushed, "call stack overflow")
        ELSE IF Len(pushed.ls) + def.locals >= MAX_LOCAL_STACK_DEPTH
            THEN Fail(pushed, "local stack overflow")
        ELSE
        LET saved == SaveLocals(pushed, def, 0)
            copied == IF saved.st # "run" THEN saved
                      ELSE CopyArgs(saved, def, 0, 0)
        IN  IF copied.st # "run" THEN copied
            ELSE IF def.kind = "BuiltIn"
                THEN Panic([copied EXCEPT !.cf = f],
                           "built-in functions should not be called with enter_function()")
            ELSE [copied EXCEPT !.cf = f, !.pc = def.first_statement]

\* ExecutionContext::enter_function
enter_function(vm, f) ==
    IF ~FunctionIdOk(f) THEN Fail(vm, "no such function")
    ELSE
    LET def == Defs(f)
        pushed == [vm EXCEPT !.cs = Append(@, SavedFrame(vm))]
    IN  IF Len(pushed.cs) >= MAX_CALL_STACK_DEPTH
            THEN Fail(pushed, "call stack overflow")
        ELSE IF Len(pushed.ls) + def.locals > MAX_LOCAL_STACK_DEPTH
            THEN Fail(pushed, "local stack overflow")
        ELSE
        LET saved == SaveLocals(pushed, def, 0)
            copied == IF saved.st # "run" THEN saved
                      ELSE CopyArgs(saved, def, 0, 0)
        IN  IF copied.st # "run" THEN copied
            ELSE IF def.kind = "BuiltIn"
                THEN Panic([copied EXCEPT !.cf = f],
                           "built-in functions should not be called with enter_function()")
            ELSE [copied EXCEPT !.cf = f, !.pc = def.first_statement]

----------------------------------------------------------------------------
(* ExecutionContext::leave_function *)

\* Mutant of RestoreDest: every local put back one word too high
RestoreDest_OneTooHigh(def, i) == def.arg_start + i + 1

\* Where the i-th saved local is put back
RestoreDest(def, i) == def.arg_start + i

\* for i in (0..def.locals).rev(): put_bytes(local_stack.pop().unwrap(), ..)
RECURSIVE RestoreLocals(_, _, _)
RestoreLocals(vm, def, i) ==
    IF i < 0 THEN vm
    ELSE IF Len(vm.ls) = 0 THEN Panic(vm, "unwrap on None")
    ELSE LET w == vm.ls[Len(vm.ls)]
             popped == [vm EXCEPT !.ls = SubSeq(@, 1, Len(@) - 1)]
             put == PutWord(popped, w, RestoreDest(def, i))
         IN  IF put.st # "run" THEN put
             ELSE RestoreLocals(put, def, i - 1)

\* The pc leave_function resumes at, from the popped frame
ResumePc(frame) == frame.instr_id

\* Mutant of leave_function: the saved locals are dropped, not written back
leave_function_LocalsDropped(vm) ==
    IF ~FunctionIdOk(vm.cf) THEN Fail(vm, "no such function")
    ELSE IF Len(vm.ls) < Defs(vm.cf).locals THEN Panic(vm, "unwrap on None")
    ELSE IF Len(vm.cs) = 0 THEN Fail(vm, "call stack underflow")
    ELSE LET frame == vm.cs[Len(vm.cs)]
         IN  [vm EXCEPT !.ls = SubSeq(@, 1, Len(@) - Defs(vm.cf).locals),
                        !.cs = SubSeq(@, 1, Len(@) - 1),
                        !.cf = frame.func_id,
                        !.pc = ResumePc(frame)]

\* ExecutionContext::leave_function
leave_function(vm) ==
    IF ~FunctionIdOk(vm.cf) THEN Fail(vm, "no such function")
    ELSE
    LET def == Defs(vm.cf)
        restored == RestoreLocals(vm, def, def.locals - 1)
    IN  IF restored.st # "run" THEN restored
        ELSE IF Len(restored.cs) = 0 THEN Fail(restored, "call stack underflow")
        ELSE LET frame == restored.cs[Len(restored.cs)]
             IN  [restored EXCEPT !.cs = SubSeq(@, 1, Len(@) - 1),
                                  !.cf = frame.func_id,
                                  !.pc = ResumePc(frame)]

----------------------------------------------------------------------------
(* Opcode handlers *)

\* Mutant of add_f: the difference instead of the sum
add_f_Difference(vm, f1_ofs, f2_ofs, sum_ofs) ==
    IF ~AddrOk(f1_ofs) \/ ~AddrOk(f2_ofs) THEN Fail(vm, "address")
    ELSE PutWord(vm, vm.g[f1_ofs] - vm.g[f2_ofs], sum_ofs)

\* ADD_F: Float addition
add_f(vm, f1_ofs, f2_ofs, sum_ofs) ==
    IF ~AddrOk(f1_ofs) \/ ~AddrOk(f2_ofs) THEN Fail(vm, "address")
    ELSE PutWord(vm, vm.g[f1_ofs] + vm.g[f2_ofs], sum_ofs)

\* STORE_F
store_f(vm, src_ofs, dest_ofs, unused) ==
    IF unused # 0 THEN Fail(vm, "Nonzero arg3 to STORE_F")
    ELSE IF ~AddrOk(src_ofs) THEN Fail(vm, "address")
    ELSE PutWord(vm, vm.g[src_ofs], dest_ofs)

\* Mutant of store_v: the three words are copied whatever arg3 is
store_v_Unchecked(vm, src_ofs, dest_ofs, unused) ==
    IF \E c \in 0 .. 2 : ~AddrOk(src_ofs + c) \/ ~AddrOk(dest_ofs + c)
        THEN Fail(vm, "address")
    ELSE [vm EXCEPT !.g = [a \in GlobalAddrs |->
                              IF a \in dest_ofs .. (dest_ofs + 2)
                                  THEN vm.g[src_ofs + (a - dest_ofs)]
                                  ELSE vm.g[a]]]

\* Mutant of CopyWords: the loop ends after two words
RECURSIVE CopyWords_TwoWords(_, _, _, _)
CopyWords_TwoWords(vm, src_ofs, dest_ofs, c) ==
    IF c >= 2 \/ vm.st # "run" THEN vm
    ELSE IF ~AddrOk(src_ofs + c) THEN Fail(vm, "address")
    ELSE CopyWords_TwoWords(PutWord(vm, vm.g[src_ofs + c], dest_ofs + c),
                            src_ofs, dest_ofs, c + 1)

\* for c in 0..3: one word copied from src_ofs + c to dest_ofs + c, by
\* untyped_copy or by get_float / put_float; the first error ends the loop
RECURSIVE CopyWords(_, _, _, _)
CopyWords(vm, src_ofs, dest_ofs, c) ==
    IF c >= 3 \/ vm.st # "run" THEN vm
    ELSE IF ~AddrOk(src_ofs + c) THEN Fail(vm, "address")
    ELSE CopyWords(PutWord(vm, vm.g[src_ofs + c], dest_ofs + c),
                   src_ofs, dest_ofs, c + 1)

\* STORE_V: both branches (dest_ofs in the reserved area or not) copy the
\* three words one by one
store_v(vm, src_ofs, dest_ofs, unused) ==
    IF unused # 0 THEN Fail(vm, "Nonzero arg3 to STORE_V")
    ELSE IF dest_ofs > 0 /\ dest_ofs < GLOBAL_STATIC_START
        THEN CopyWords(vm, src_ofs, dest_ofs, 0)
        ELSE CopyWords(vm, src_ofs, dest_ofs, 0)

\* STORE_S
store_s(vm, src_ofs, dest_ofs, unused) ==
    IF unused # 0 THEN Fail(vm, "Nonzero arg3 to STORE_S")
    ELSE LET s == get_string_id(vm, src_ofs)
         IN  IF ~s.ok THEN Fail(vm, s.msg) ELSE PutWord(vm, s.val, dest_ofs)

\* STORE_ENT
store_ent(vm, src_ofs, dest_ofs, unused) ==
    IF unused # 0 THEN Fail(vm, "Nonzero arg3 to STORE_ENT")
    ELSE IF ~AddrOk(src_ofs) THEN Fail(vm, "address")
    ELSE PutWord(vm, vm.g[src_ofs], dest_ofs)

\* STORE_FLD
store_fld(vm, src_ofs, dest_ofs, unused) ==
    IF unused # 0 THEN Fail(vm, "Nonzero arg3 to STORE_FLD")
    ELSE IF ~AddrOk(src_ofs) THEN Fail(vm, "address")
    ELSE PutWord(vm, vm.g[src_ofs], dest_ofs)

\* STORE_FNC
store_fnc(vm, src_ofs, dest_ofs, unused) ==
    IF unused # 0 THEN Fail(vm, "Nonzero arg3 to STORE_FNC")
    ELSE IF ~AddrOk(src_ofs) THEN Fail(vm, "address")
    ELSE PutWord(vm, vm.g[src_ofs], dest_ofs)

\* Mutant of address: entity id and field address taken the wrong way round
address_Swapped(vm, ent_id_addr, fld_addr_addr, dest_addr) ==
    IF ~AddrOk(ent_id_addr) \/ ~AddrOk(fld_addr_addr) THEN Fail(vm, "address")
    ELSE PutWord(vm,
                 ent_fld_addr_to_i32(vm.g[fld_addr_addr], vm.g[ent_id_addr]),
                 dest_addr)

\* ADDRESS: pack (entity id, field address) into one word at dest_addr
address(vm, ent_id_addr, fld_addr_addr, dest_addr) ==
    IF ~AddrOk(ent_id_addr) \/ ~AddrOk(fld_addr_addr) THEN Fail(vm, "address")
    ELSE PutWord(vm,
                 ent_fld_addr_to_i32(vm.g[ent_id_addr], vm.g[fld_addr_addr]),
                 dest_addr)

\* Entity::put_float on entity e: one field word written
EntityPut(vm, e, w, fld) ==
    IF ~EntityOk(e) THEN Fail(vm, "no such entity")
    ELSE IF ~FieldOk(fld) THEN Fail(vm, "field address")
    ELSE [vm EXCEPT !.ents[e][fld] = w]

\* Mutant of storep_f: the field address of the target is dropped
storep_f_FieldZero(vm, src_float_addr, dst_ent_fld_addr, unused) ==
    IF unused # 0 THEN Fail(vm, "storep_f: nonzero arg3")
    ELSE IF ~AddrOk(src_float_addr) \/ ~AddrOk(dst_ent_fld_addr)
        THEN Fail(vm, "address")
    ELSE LET f == vm.g[src_float_addr]
             ent_fld_addr == ent_fld_addr_from_i32(vm.g[dst_ent_fld_addr])
         IN  EntityPut(vm, ent_fld_addr.entity_id, f, 0)

\* STOREP_F: store a float through an entity-field address
storep_f(vm, src_float_addr, dst_ent_fld_addr, unused) ==
    IF unused # 0 THEN Fail(vm, "storep_f: nonzero arg3")
    ELSE IF ~AddrOk(src_float_addr) \/ ~AddrOk(dst_ent_fld_addr)
        THEN Fail(vm, "address")
    ELSE LET f == vm.g[src_float_addr]
             ent_fld_addr == ent_fld_addr_from_i32(vm.g[dst_ent_fld_addr])
         IN  EntityPut(vm, ent_fld_addr.entity_id, f, ent_fld_addr.field_addr)

\* Entity::put_vector on entity e: three field words written, or none
EntityPutVector(vm, e, v, fld) ==
    IF ~EntityOk(e) THEN Fail(vm, "no such entity")
    ELSE IF ~FieldOk(fld) \/ ~FieldOk(fld + 2) THEN Fail(vm, "field address")
    ELSE [vm EXCEPT !.ents[e] = [x \in FieldAddrs |->
                                    IF x \in fld .. (fld + 2) THEN v[x - fld + 1]
                                    ELSE vm.ents[e][x]]]

\* STOREP_V
storep_v(vm, src_vector_addr, dst_ent_fld_addr, unused) ==
    IF unused # 0 THEN Fail(vm, "storep_v: nonzero arg3")
    ELSE IF ~AddrOk(src_vector_addr) \/ ~AddrOk(src_vector_addr + 2)
            \/ ~AddrOk(dst_ent_fld_addr)
        THEN Fail(vm, "address")
    ELSE LET v == <<vm.g[src_vector_addr], vm.g[src_vector_addr + 1],
                    vm.g[src_vector_addr + 2]>>
             ent_fld_addr == ent_fld_addr_from_i32(vm.g[dst_ent_fld_addr])
         IN  EntityPutVector(vm, ent_fld_addr.entity_id, v,
                             ent_fld_addr.field_addr)

\* STOREP_S
storep_s(vm, src_string_id_addr, dst_ent_fld_addr, unused) ==
    IF unused # 0 THEN Fail(vm, "storep_s: nonzero arg3")
    ELSE LET s == get_string_id(vm, src_string_id_addr)
         IN  IF ~s.ok THEN Fail(vm, s.msg)
             ELSE IF ~AddrOk(dst_ent_fld_addr) THEN Fail(vm, "address")
             ELSE LET ent_fld_addr ==
                          ent_fld_addr_from_i32(vm.g[dst_ent_fld_addr])
                  IN  EntityPut(vm, ent_fld_addr.entity_id, s.val,
                                ent_fld_addr.field_addr)

\* STOREP_ENT
storep_ent(vm, src_entity_id_addr, dst_ent_fld_addr, unused) ==
    IF unused # 0 THEN Fail(vm, "storep_ent: nonzero arg3")
    ELSE IF ~AddrOk(src_entity_id_addr) \/ ~AddrOk(dst_ent_fld_addr)
        THEN Fail(vm, "address")
    ELSE LET e == vm.g[src_entity_id_addr]
             ent_fld_addr == ent_fld_addr_from_i32(vm.g[dst_ent_fld_addr])
         IN  EntityPut(vm, ent_fld_addr.entity_id, e, ent_fld_addr.field_addr)

\* STOREP_FNC
storep_fnc(vm, src_function_id_addr, dst_ent_fld_addr, unused) ==
    IF unused # 0 THEN Fail(vm, "storep_fnc: nonzero arg3")
    ELSE IF ~AddrOk(src_function_id_addr) \/ ~AddrOk(dst_ent_fld_addr)
        THEN Fail(vm, "address")
    ELSE LET f == vm.g[src_function_id_addr]
             ent_fld_addr == ent_fld_addr_from_i32(vm.g[dst_ent_fld_addr])
         IN  EntityPut(vm, ent_fld_addr.entity_id, f, ent_fld_addr.field_addr)

\* What one dispatched statement yields: the machine after it, and whether
\* the loop goes on to `self.pc += 1` (false where the arm ends in `continue`)
Outcome(vm, adv) == [vm |-> vm, advance |-> adv]

\* Opcode::If / Opcode::IfNot; taken is the arm's test on globals[a].
\* (self.pc as isize + delta) as usize: a sum below 0 wraps to an index past
\* every statement; the model keeps the negative sum, which PcOk refuses too
Branch(vm, taken, b) ==
    IF taken
        THEN IF ~AddrOk(b) THEN Outcome(Fail(vm, "address"), FALSE)
             ELSE Outcome([vm EXCEPT !.pc = vm.pc + vm.g[b]], FALSE)
        ELSE Outcome(vm, FALSE)

op_if(vm, a, b) ==
    IF ~AddrOk(a) THEN Outcome(Fail(vm, "address"), FALSE)
    ELSE Branch(vm, vm.g[a] # 0, b)

op_ifnot(vm, a, b) ==
    IF ~AddrOk(a) THEN Outcome(Fail(vm, "address"), FALSE)
    ELSE Branch(vm, vm.g[a] = 0, b)

\* Mutant of op_goto: the loop goes on to `self.pc += 1` after the jump
op_goto_ThenIncrement(vm, a) ==
    IF ~AddrOk(a) THEN Outcome(Fail(vm, "address"), FALSE)
    ELSE Outcome([vm EXCEPT !.pc = vm.pc + vm.g[a]], TRUE)

\* Opcode::Goto
op_goto(vm, a) ==
    IF ~AddrOk(a) THEN Outcome(Fail(vm, "address"), FALSE)
    ELSE Outcome([vm EXCEPT !.pc = vm.pc + vm.g[a]], FALSE)

\* Mutant of op_state: the frame is written where nextthink belongs
op_state_FieldsSwapped(vm, a) ==
    LET self_id == vm.g[GLOBAL_ADDR_SELF]
    IN  IF ~EntityOk(self_id) THEN Fail(vm, "no such entity")
        ELSE
        LET thought == EntityPut(vm, self_id, vm.g[GLOBAL_ADDR_TIME] + TENTH,
                                 FIELD_FRAME)
        IN  IF thought.st # "run" THEN thought
            ELSE IF ~AddrOk(a) THEN Fail(thought, "address")
            ELSE EntityPut(thought, self_id, vm.g[a], FIELD_NEXTTHINK)

\* Opcode::State: nextthink of the entity in `self` is written first, then
\* globals[a] is read and written to its frame
op_state(vm, a) ==
    LET self_id == vm.g[GLOBAL_ADDR_SELF]
    IN  IF ~EntityOk(self_id) THEN Fail(vm, "no such entity")
        ELSE
        LET thought == EntityPut(vm, self_id, vm.g[GLOBAL_ADDR_TIME] + TENTH,
                                 FIELD_NEXTTHINK)
        IN  IF thought.st # "run" THEN thought
            ELSE IF ~AddrOk(a) THEN Fail(thought, "address")
            ELSE EntityPut(thought, self_id, vm.g[a], FIELD_FRAME)

\* Mutant of builtin_cvar: the value lands one word after the return slot
builtin_cvar_NextWord(vm) ==
    LET s_id == get_string_id(vm, GLOBAL_ADDR_ARG_0)
    IN  IF ~s_id.ok THEN Fail(vm, s_id.msg)
        ELSE
        LET s == StringTable_get(StringTable, s_id.val)
        IN  IF ~s.some THEN Panic(vm, "unwrap on None")
            ELSE
            LET f == CvarRegistry_get_value(s.val)
            IN  IF ~f.ok THEN Panic(vm, "unwrap on Err")
                ELSE PutWord(vm, f.val, GLOBAL_ADDR_RETURN + 1)

\* BuiltinFunctionId::Cvar
builtin_cvar(vm) ==
    LET s_id == get_string_id(vm, GLOBAL_ADDR_ARG_0)
    IN  IF ~s_id.ok THEN Fail(vm, s_id.msg)
        ELSE
        LET s == StringTable_get(StringTable, s_id.val)
        IN  IF ~s.some THEN Panic(vm, "unwrap on None")
            ELSE
            LET f == CvarRegistry_get_value(s.val)
            IN  IF ~f.ok THEN Panic(vm, "unwrap on Err")
                ELSE PutWord(vm, f.val, GLOBAL_ADDR_RETURN)

\* match b { .. }: unimplemented!() for every id but make_vectors and cvar
\* (the program declares cvar and random)
call_builtin(vm, b) ==
    IF b = "Cvar" THEN builtin_cvar(vm)
    ELSE Panic(vm, "not yet implemented")

\* Opcode::Call0 .. Opcode::Call8
op_call(vm, a) ==
    IF ~AddrOk(a) THEN Outcome(Fail(vm, "address"), TRUE)
    ELSE
    LET f_to_call == vm.g[a]
    IN  IF f_to_call = 0 THEN Outcome(Panic(vm, "NULL function"), TRUE)
        ELSE IF ~FunctionIdOk(f_to_call)
            THEN Outcome(Fail(vm, "no such function"), TRUE)
        ELSE IF Defs(f_to_call).kind = "BuiltIn"
            THEN Outcome(call_builtin(vm, Defs(f_to_call).builtin), TRUE)
        ELSE Outcome(enter_function(vm, f_to_call), TRUE)

\* Mutant of ReturnWords: each word is read after the words before it were
\* written to the return slot
ReturnWords_ReadAfterWrite(vm, a, b, c) ==
    LET g1 == [vm.g EXCEPT ![GLOBAL_ADDR_RETURN] = vm.g[a]]
        g2 == [g1 EXCEPT ![GLOBAL_ADDR_RETURN + 1] = g1[b]]
    IN  <<vm.g[a], g1[b], g2[c]>>

\* The three words done/return stores at RETURN, RETURN+1, RETURN+2
ReturnWords(vm, a, b, c) == <<vm.g[a], vm.g[b], vm.g[c]>>

\* Opcode::Done | Opcode::Return
op_return(vm, a, b, c) ==
    IF ~AddrOk(a) \/ ~AddrOk(b) \/ ~AddrOk(c)
        THEN Outcome(Fail(vm, "address"), FALSE)
    ELSE
    LET val == ReturnWords(vm, a, b, c)
        put1 == PutWord(vm, val[1], GLOBAL_ADDR_RETURN)
        put2 == PutWord(put1, val[2], GLOBAL_ADDR_RETURN + 1)
        put3 == PutWord(put2, val[3], GLOBAL_ADDR_RETURN + 2)
    IN  IF put3.st # "run" THEN Outcome(put3, FALSE)
        ELSE Outcome(leave_function(put3), FALSE)

CallOps == {"Call0", "Call1", "Call2", "Call3", "Call4", "Call5", "Call6",
            "Call7", "Call8"}

\* match op { .. }
Dispatch(vm, s) ==
    CASE s.op = "AddF" -> Outcome(add_f(vm, s.a, s.b, s.c), TRUE)
      [] s.op = "StoreF" -> Outcome(store_f(vm, s.a, s.b, s.c), TRUE)
      [] s.op = "Address" -> Outcome(address(vm, s.a, s.b, s.c), TRUE)
      [] s.op = "StoreV" -> Outcome(store_v(vm, s.a, s.b, s.c), TRUE)
      [] s.op = "StoreS" -> Outcome(store_s(vm, s.a, s.b, s.c), TRUE)
      [] s.op = "StoreEnt" -> Outcome(store_ent(vm, s.a, s.b, s.c), TRUE)
      [] s.op = "StoreFld" -> Outcome(store_fld(vm, s.a, s.b, s.c), TRUE)
      [] s.op = "StoreFnc" -> Outcome(store_fnc(vm, s.a, s.b, s.c), TRUE)
      [] s.op = "StorePF" -> Outcome(storep_f(vm, s.a, s.b, s.c), TRUE)
      [] s.op = "StorePV" -> Outcome(storep_v(vm, s.a, s.b, s.c), TRUE)
      [] s.op = "StorePS" -> Outcome(storep_s(vm, s.a, s.b, s.c), TRUE)
      [] s.op = "StorePEnt" -> Outcome(storep_ent(vm, s.a, s.b, s.c), TRUE)
      [] s.op = "StorePFnc" -> Outcome(storep_fnc(vm, s.a, s.b, s.c), TRUE)
      [] s.op = "LoadFld" -> Outcome(Panic(vm, "load_fld not implemented"), TRUE)
      [] s.op = "StorePFld"
            -> Outcome(Panic(vm, "storep_fld not implemented"), TRUE)
      [] s.op = "If" -> op_if(vm, s.a, s.b)
      [] s.op = "IfNot" -> op_ifnot(vm, s.a, s.b)
      [] s.op = "Goto" -> op_goto(vm, s.a)
      [] s.op = "State" -> Outcome(op_state(vm, s.a), TRUE)
      [] s.op \in CallOps -> op_call(vm, s.a)
      [] s.op \in {"Done", "Return"} -> op_return(vm, s.a, s.b, s.c)

\* self.pc += 1 at the end of an iteration that did not `continue` or fail
Advance(out) ==
    IF out.vm.st = "run" /\ out.advance
        THEN [out.vm EXCEPT !.pc = @ + 1]
        ELSE out.vm

\* The statement fetched at self.pc; statements[pc] panics out of bounds
PcOk(p) == p \in 0 .. (NumStatements - 1)

\* Mutant of RunawayHit: the guard fires below 0 only
RunawayHit_BelowZero(r) == r < 0

\* if runaway == 0, on the counter already decremented to r
RunawayHit(r) == r = 0

\* One iteration of the loop of execute_program, the runaway counter
\* already decremented to r
Iteration(vm, r) ==
    IF RunawayHit(r) THEN Panic(vm, "runaway program")
    ELSE IF ~PcOk(vm.pc) THEN Panic(vm, "index out of bounds")
    ELSE Advance(Dispatch(vm, Statements[vm.pc + 1]))

\* 1 when the iteration gets as far as `match op`, 0 when the runaway guard
\* or the fetch of statements[pc] ends it
Fetches(vm, r) == IF ~RunawayHit(r) /\ PcOk(vm.pc) THEN 1 ELSE 0

\* globals_at_enter once the call stack is that of vm: one entry more, g, for
\* a frame pushed, the entries of the popped frames dropped
FramesEntered(vm, g) ==
    IF Len(vm.cs) > Len(globals_at_enter) THEN Append(globals_at_enter, g)
    ELSE SubSeq(globals_at_enter, 1, Len(vm.cs))

----------------------------------------------------------------------------
(* The host: what it puts into globals before a call, and the call *)

\* Values of the words the host presets
V_A == 30          \* 1.5
V_B == 45          \* 2.25
V_STORE == 190     \* 9.5
V_ARG == 11        \* ARG0 holds V_ARG, ARG0 + 1 holds V_ARG + 1, ...
V_LOCAL == 21      \* the word at arg_start holds V_LOCAL, the next one more

\* A call the host makes: the function, the words it puts first, and
\* whether the call is one that only the runaway guard ends
Call(f, puts, long) == [f |-> f, puts |-> puts, long |-> long]

ArgPuts == {<<GLOBAL_ADDR_ARG_0 + i, V_ARG + i>> : i \in 0 .. 5}
LocalPuts == {<<G_LOCALS + i, V_LOCAL + i>> : i \in 0 .. (MaxLocals - 1)}

HostCalls ==
    {Call(F_ADD, {<<G_X, x>>, <<G_Y, y>>}, FALSE) : x, y \in {V_A, V_B}}
    \cup {Call(F_LOOP, {<<G_X, 0>>}, FALSE),
          Call(F_LOOP, {<<G_X, 1>>}, TRUE),
          Call(F_SELFJUMP, {}, TRUE),
          Call(F_IF, {<<G_X, 1>>}, FALSE),
          Call(F_IF, {<<G_X, 0>>}, TRUE),
          Call(F_CALLER, {<<G_CALLEE, F_ADD>>, <<G_X, V_A>>, <<G_Y, V_B>>},
               TRUE),
          Call(F_REC, LocalPuts, FALSE),
          Call(F_BADSTORE, {<<G_X, V_A>>}, FALSE),
          Call(F_VEC, ArgPuts \cup LocalPuts, FALSE)}
    \cup {Call(F_ADDR, {<<G_ENT, e>>, <<G_Y, fld>>, <<G_X, V_STORE>>}, FALSE) :
            e \in 0 .. NumEntities, fld \in 0 .. EntStride}
    \cup {Call(f, ArgPuts \cup LocalPuts, FALSE) : f \in FrameFns}

\* globals.put_* by the host
ApplyPuts(g, puts) ==
    [a \in GlobalAddrs |->
        IF \E p \in puts : p[1] = a
            THEN (CHOOSE p \in puts : p[1] = a)[2]
            ELSE g[a]]

\* Mutant of StatusOf: the loop ends on the empty call stack
StatusOf_EmptyStack(vm, depth) ==
    IF vm.st # "run" THEN vm.st
    ELSE IF Len(vm.cs) = 0 THEN "ok"
    ELSE "running"

\* What execute_program reports once the machine is vm: an error or panic
\* as raised, Ok when the call stack is back at exit_depth, else go on
StatusOf(vm, depth) ==
    IF vm.st # "run" THEN vm.st
    ELSE IF Len(vm.cs) = depth THEN "ok"
    ELSE "running"

Install(vm, depth) ==
    /\ pc' = vm.pc
    /\ current_function' = vm.cf
    /\ call_stack' = vm.cs
    /\ local_stack' = vm.ls
    /\ globals' = vm.g
    /\ entities' = vm.ents
    /\ status' = StatusOf(vm, depth)
    /\ err' = (IF vm.st = "run" THEN "" ELSE vm.msg)

----------------------------------------------------------------------------
(* The state machine *)

\* load: ExecutionContext::create, the globals lump, zeroed entities
VmInit ==
    /\ pc = 0
    /\ current_function = 0
    /\ call_stack = <<>>
    /\ local_stack = <<>>
    /\ globals = ProgramGlobals
    /\ entities = [e \in EntityIds |-> [fld \in FieldAddrs |-> 0]]
    /\ status = "idle"
    /\ err = ""
    /\ runaway = RunawayStart
    /\ exit_depth = 0
    /\ f_arg = 0
    /\ calls = 0
    /\ globals_at_entry = ProgramGlobals
    /\ entities_at_entry = [e \in EntityIds |-> [fld \in FieldAddrs |-> 0]]
    /\ depth_at_entry = <<0, 0>>
    /\ context_at_entry = [pc |-> 0, cf |-> 0, cs |-> <<>>]
    /\ dispatched = 0
    /\ globals_at_enter = <<>>

\* load: the string table made of the string lump
StringsInit ==
    /\ lump = ProgramLump
    /\ byte_count = Len(ProgramLump)
    /\ table = <<>>
    /\ inserts = <<>>
    /\ table_status = "ok"
    /\ found = None

\* The buffer and the result of load are not kept once the handles exist
LoaderDone ==
    /\ load_input = NotLoaded
    /\ load_result = NotLoaded

\* The state after load(data) returned the three handles for the program
Init ==
    /\ VmInit
    /\ StringsInit
    /\ LoaderDone
    /\ InputIdle

\* The host sets up globals and calls execute_program(f): the part of
\* execute_program before its loop.  A call that only the runaway guard ends
\* is made on a fresh context only (it costs RunawayStart states).
ExecuteProgram(call) ==
    /\ status \in {"idle", "ok", "err"}
    /\ calls < MaxCalls
    /\ call.long => calls = 0
    /\ LET g0 == ApplyPuts(globals, call.puts)
           entered == enter_function([Machine EXCEPT !.g = g0], call.f)
       IN  /\ Install(entered, Len(call_stack))
           /\ globals_at_entry' = g0
           /\ globals_at_enter' = FramesEntered(entered, g0)
    /\ dispatched' = 0
    /\ runaway' = RunawayStart
    /\ exit_depth' = Len(call_stack)
    /\ f_arg' = call.f
    /\ calls' = calls + 1
    /\ entities_at_entry' = entities
    /\ depth_at_entry' = <<Len(call_stack), Len(local_stack)>>
    /\ context_at_entry' = [pc |-> pc, cf |-> current_function,
                            cs |-> call_stack]
    /\ UNCHANGED <<string_vars, loader_vars, input_vars>>

\* One iteration of the loop of execute_program
Step ==
    /\ status = "running"
    /\ runaway' = runaway - 1
    /\ Install(Iteration(Machine, runaway - 1), exit_depth)
    /\ dispatched' = dispatched + Fetches(Machine, runaway - 1)
    /\ globals_at_enter' = FramesEntered(Iteration(Machine, runaway - 1), globals)
    /\ UNCHANGED <<exit_depth, f_arg, calls, globals_at_entry,
                   entities_at_entry, depth_at_entry, context_at_entry>>
    /\ UNCHANGED <<string_vars, loader_vars, input_vars>>

Next ==
    \/ \E call \in HostCalls : ExecuteProgram(call)
    \/ Step

Spec == Init /\ [][Next]_vars

----------------------------------------------------------------------------
(* The string table on its own: any lump, then inserts *)

MaxInserts == 3       \* inserts made on one string table
MaxValueLen == 2      \* bytes of the longest inserted string

Lumps == {<<>>, <<NUL>>, <<NUL, "a", NUL>>, ProgramLump}

\* The strings of at most MaxValueLen bytes over two letters
InsertValues ==
    UNION {[1 .. n -> {"a", "b"}] : n \in 0 .. MaxValueLen}

InitStrings ==
    /\ VmInit
    /\ lump \in Lumps
    /\ byte_count = StringTable_new(lump).byte_count
    /\ table = StringTable_new(lump).table
    /\ inserts = <<>>
    /\ table_status = "ok"
    /\ found = None
    /\ LoaderDone
    /\ InputIdle

\* string_table.insert(value)
Insert(value) ==
    /\ table_status = "ok"
    /\ Len(inserts) < MaxInserts
    /\ LET done == StringTable_insert(StringTable, value)
       IN  /\ byte_count' = done.t.byte_count
           /\ table' = done.t.table
           /\ table_status' = (IF done.panicked THEN "panic" ELSE "ok")
           /\ inserts' = (IF done.panicked THEN inserts
                          ELSE Append(inserts, [value |-> value, id |-> done.id]))
    /\ found' = None
    /\ UNCHANGED <<lump, vm_vars, loader_vars, input_vars>>

SpecStrings == InitStrings /\ [][\E value \in InsertValues : Insert(value)]_vars

\* The strings inserted around the finds: the empty one, one that is a
\* string of a lump, one that is in no lump
FindValues == {<<>>, <<"a">>, <<"a", "b">>}

\* The texts looked for: the inserted strings, and whole strings, ends,
\* beginnings and middles of strings of the program's lump
FindTargets ==
    FindValues
    \cup {SvGravity, <<"g", "r", "a", "v", "i", "t", "y">>,
          <<"s", "v">>, <<"e", "m">>, <<"t", "e", "m", "p", "1">>, <<"x">>}

\* string_table.find(target)
Find(target) ==
    /\ table_status = "ok"
    /\ \E result \in StringTable_find(StringTable, target) :
           found' = Some([target |-> target, result |-> result])
    /\ UNCHANGED <<lump, byte_count, table, inserts, table_status, vm_vars,
                   loader_vars, input_vars>>

NextFind ==
    \/ \E value \in FindValues : Insert(value)
    \/ \E target \in FindTargets : Find(target)

\* Any lump, then inserts and finds in any order
SpecFind == InitStrings /\ [][NextFind]_vars

----------------------------------------------------------------------------
(* The store opcodes: every store function called with a vector in          *)
(* G_X..G_X+2 and the address of field 0 of the last entity in G_W          *)

StoreCalls ==
    {Call(f, {<<G_X, V_A>>, <<G_Y, V_B>>, <<G_Z, V_STORE>>,
              <<G_W, ent_fld_addr_to_i32(NumEntities - 1, 0)>>}, FALSE) :
        f \in StoreFns}

NextStores ==
    \/ \E call \in StoreCalls : ExecuteProgram(call)
    \/ Step

SpecStores == Init /\ [][NextStores]_vars

----------------------------------------------------------------------------
(* The loader on its own: a buffer, then load *)

InitLoad ==
    /\ VmInit
    /\ StringsInit
    /\ load_input \in LoadInputs \cup {ProgramData}
    /\ load_result = NotLoaded
    /\ InputIdle

\* load(data)
Load ==
    /\ load_result = NotLoaded
    /\ load_result' = load(load_input)
    /\ UNCHANGED <<load_input, vm_vars, string_vars, input_vars>>

SpecLoad == InitLoad /\ [][Load]_vars

----------------------------------------------------------------------------
(* Action names on their own: the name of an action written in some letter  *)
(* case, or with a sign before it, then Action::from_str                    *)

\* text with the letters at the positions in caps in upper case
Cased(text, caps) ==
    [i \in 1 .. Len(text) |-> IF i \in caps THEN UpperOf(text[i]) ELSE text[i]]

InitInput ==
    /\ VmInit
    /\ StringsInit
    /\ LoaderDone
    /\ parse_result = NotParsed
    /\ bind_target = ConsoleInput(<<>>)
    /\ bind_text = None
    /\ CaptureIdle
    /\ GameIdle
    /\ \E a \in Actions :
          \E caps \in SUBSET (1 .. Len(Action_to_string(a))) :
              \E sign \in {<<>>, <<"+">>} :
                  parse_input =
                      [action |-> a,
                       text |-> sign \o Cased(Action_to_string(a), caps)]

\* Action::from_str(text)
Parse ==
    /\ parse_result = NotParsed
    /\ parse_result' = Action_from_str(parse_input.text)
    /\ UNCHANGED <<parse_input, bind_target, bind_text, screenshot_path,
                   cmd_args, cmd_output, game_vars, vm_vars, string_vars,
                   loader_vars>>

SpecInput == InitInput /\ [][Parse]_vars

----------------------------------------------------------------------------
(* Bind targets on their own: an action with a trigger or a console text,   *)
(* then BindTarget::to_string                                               *)

MaxTextLen == 3       \* letters of the longest console text

\* Every action with either trigger, and the console texts of at most
\* MaxTextLen letters over a letter and a sign
BindTargets ==
    {BindAction(trigger, a) : trigger \in {"Pressed", "Released"}, a \in Actions}
    \cup {ConsoleInput(text) :
            text \in UNION {[1 .. n -> {"a", "+"}] : n \in 0 .. MaxTextLen}}

InitBind ==
    /\ VmInit
    /\ StringsInit
    /\ LoaderDone
    /\ parse_input = [action |-> "none", text |-> <<>>]
    /\ parse_result = NotParsed
    /\ bind_target \in BindTargets
    /\ bind_text = None
    /\ CaptureIdle
    /\ GameIdle

\* target.to_string()
Format ==
    /\ bind_text = None
    /\ bind_text' = Some(BindTarget_to_string(bind_target))
    /\ UNCHANGED <<bind_target, parse_input, parse_result, screenshot_path,
                   cmd_args, cmd_output, game_vars, vm_vars, string_vars,
                   loader_vars>>

SpecBind == InitBind /\ [][Format]_vars

----------------------------------------------------------------------------
(* The screenshot command on its own: any number of commands, one after    *)
(* the other                                                                *)

MaxCmdArgs == 3       \* arguments of the longest command line

\* The command lines: at most MaxCmdArgs arguments, each one of three paths
CmdArgs ==
    UNION {[1 .. n -> {<<"a.png">>, <<"b.png">>, <<"shots/c.png">>}] :
              n \in 0 .. MaxCmdArgs}

\* screenshot [PATH]
Screenshot(args, now) ==
    /\ LET done == cmd_screenshot(screenshot_path, args, now)
       IN  /\ screenshot_path' = done.path
           /\ cmd_output' = done.out
    /\ cmd_args' = args
    /\ UNCHANGED <<parse_input, parse_result, bind_target, bind_text,
                   game_vars, vm_vars, string_vars, loader_vars>>

\* now: two readings of the clock
SpecScreenshot ==
    Init /\ [][\E args \in CmdArgs :
                 \E now \in {"2021-05-01T10-00-00", "2021-05-01T10-00-01"} :
                     Screenshot(args, now)]_vars

----------------------------------------------------------------------------
(* The game input on its own: binds, input events, mouse motion, impulse    *)
(* commands and refreshes, in any order                                      *)

MaxStuffed == 2       \* texts the console holds at most
MaxMouse == 1         \* largest distance the mouse is moved along an axis

\* The targets bound: an action on press, the same action on release,
\* another action, a console text
GameTargets ==
    {BindAction("Pressed", "Forward"), BindAction("Released", "Forward"),
     BindAction("Pressed", "Jump"),
     ConsoleInput(<<"i", "m", "p", "u", "l", "s", "e", " ", "7">>)}

\* The argument lists of the impulse commands: none, numbers in and out of
\* range, with a sign, with leading zeros, no number, two arguments
ImpulseArgs ==
    {<<>>, <<<<"7">>>>, <<<<"0">>>>, <<<<"2", "5", "5">>>>,
     <<<<"2", "5", "6">>>>, <<<<"+", "5">>>>, <<<<"-", "1">>>>, <<<<>>>>,
     <<<<"a">>>>, <<<<"7", "a">>>>, <<<<"0", "0", "7">>>>,
     <<<<"7">>, <<"5">>>>}

MouseDeltas == {<<1, 0>>, <<0, 1>>}

\* The GameInput becomes gi, by the operation op
GameInstall(gi, op) ==
    /\ bindings' = gi.bindings
    /\ action_states' = gi.action_states
    /\ mouse_delta' = gi.mouse_delta
    /\ impulse' = gi.impulse
    /\ console' = gi.console
    /\ game_op' = op
    /\ UNCHANGED <<parse_input, parse_result, bind_target, bind_text,
                   screenshot_path, cmd_args, cmd_output, vm_vars,
                   string_vars, loader_vars>>

\* game_input.bind(input, target)
Bind(input, target) ==
    GameInstall(bind(GameInput, input, target), [op |-> "bind"])

\* game_input.handle_input(input, state)
HandleInput(input, state) ==
    LET gi == handle_input(GameInput, input, state)
    IN  /\ Len(gi.console) <= MaxStuffed
        /\ GameInstall(gi, [op |-> "handle_input", input |-> input,
                            state |-> state])

\* game_input.handle_event(DeviceEvent::MouseMotion { delta })
MouseMotion(delta) ==
    LET gi == mouse_motion(GameInput, delta)
    IN  /\ \A k \in 1 .. 2 : gi.mouse_delta[k] \in (-MaxMouse) .. MaxMouse
        /\ GameInstall(gi, [op |-> "mouse_motion"])

\* impulse [number]
Impulse(args) ==
    GameInstall([GameInput EXCEPT !.impulse = cmd_impulse(impulse, args).impulse],
                [op |-> "impulse", args |-> args])

\* game_input.refresh()
Refresh == GameInstall(refresh(GameInput), [op |-> "refresh"])

NextGame ==
    \/ \E input \in BindInputs : \E target \in GameTargets : Bind(input, target)
    \/ \E input \in BindInputs : \E state \in {"Pressed", "Released"} :
           HandleInput(input, state)
    \/ \E delta \in MouseDeltas : MouseMotion(delta)
    \/ Refresh

SpecGame == Init /\ [][NextGame]_vars

----------------------------------------------------------------------------
(* The impulse on its own: after some binds, impulse commands, input        *)
(* events, mouse motion and refreshes, in any order                          *)

\* A GameInput with a key bound to an action and a wheel input bound to a
\* console text, or with the two exchanged
InitImpulse ==
    /\ VmInit
    /\ StringsInit
    /\ LoaderDone
    /\ parse_input = [action |-> "none", text |-> <<>>]
    /\ parse_result = NotParsed
    /\ bind_target = ConsoleInput(<<>>)
    /\ bind_text = None
    /\ CaptureIdle
    /\ \E key \in BindInputs : \E wheel \in BindInputs \ {key} :
          \E action \in {t \in GameTargets : t.kind = "Action"} :
              \E text \in {t \in GameTargets : t.kind = "ConsoleInput"} :
                  bindings =
                      bind(bind(GameInput_new, key, action), wheel, text).bindings
    /\ action_states = GameInput_new.action_states
    /\ mouse_delta = GameInput_new.mouse_delta
    /\ impulse = GameInput_new.impulse
    /\ console = GameInput_new.console
    /\ game_op = [op |-> "bind"]

NextImpulse ==
    \/ \E args \in ImpulseArgs : Impulse(args)
    \/ \E input \in BindInputs : \E state \in {"Pressed", "Released"} :
           HandleInput(input, state)
    \/ \E delta \in MouseDeltas : MouseMotion(delta)
    \/ Refresh

SpecImpulse == InitImpulse /\ [][NextImpulse]_vars

----------------------------------------------------------------------------
\* The host calls around the call statement: call1 through the function
\* variable of a built-in, of the null function, of an id past the function
\* table; ARG0 holds a string id of the lump, one inside a string, a
\* negative one or one past the string table
StringWords == {S_EMPTY, S_SV_GRAVITY, S_SV_GRAVITY + 3, S_TEMP1, -1,
                Len(ProgramLump)}

CallTargets == {0, F_CVAR, F_RANDOM, NumFunctions}

CallStatementCalls ==
    {Call(F_CALL1, {<<G_CALLEE, f>>, <<GLOBAL_ADDR_ARG_0, w>>,
                    <<GLOBAL_ADDR_RETURN, V_A>>}, FALSE) :
        f \in CallTargets, w \in StringWords}
    \cup {Call(F_ADD, {<<G_X, V_A>>, <<G_Y, V_B>>}, FALSE),
          Call(F_BADSTORE, {<<G_X, V_A>>}, FALSE),
          Call(F_LOADFLD, {}, FALSE),
          Call(F_STOREPFLD, {}, FALSE)}

NextCalls ==
    \/ \E call \in CallStatementCalls : ExecuteProgram(call)
    \/ Step

SpecCalls == Init /\ [][NextCalls]_vars

\* The same, and the host calling execute_program itself on the null
\* function, on the two built-ins and on an id past the function table
EntryCalls == CallStatementCalls \cup {Call(f, {}, FALSE) : f \in CallTargets}

NextEntry ==
    \/ \E call \in EntryCalls : ExecuteProgram(call)
    \/ Step

SpecEntry == Init /\ [][NextEntry]_vars

----------------------------------------------------------------------------
\* The host calls around frames, jumps, store_v and state: recursion to the
\* call stack limit and recursion that returns, locals regions at the local
\* stack limit, returns from the locals and from the return slot, taken
\* jumps forward and backward and jumps with a negative operand address,
\* store_v into the reserved area and over its own source (the fourth word
\* is not a float), state with `self` inside and outside the entity list,
\* functions that leave the statements
OpCalls ==
    {Call(F_REC, LocalPuts, FALSE),
     Call(F_RR, LocalPuts \cup {<<G_NEXT, F_RR>>, <<G_NEXT2, F_CVAR>>,
                                <<G_X, V_A>>, <<GLOBAL_ADDR_ARG_0, S_SV_GRAVITY>>},
          FALSE),
     Call(F_ROT, {<<GLOBAL_ADDR_RETURN, V_A>>, <<GLOBAL_ADDR_RETURN + 1, V_B>>,
                  <<GLOBAL_ADDR_RETURN + 2, V_STORE>>}, FALSE),
     Call(F_SLOT, {<<G_X, V_A>>, <<G_Y, V_B>>, <<G_Z, V_STORE>>,
                   <<GLOBAL_ADDR_RETURN, V_ARG>>}, FALSE),
     Call(F_VEC, ArgPuts \cup LocalPuts, FALSE),
     Call(F_ADD, {<<G_X, V_A>>, <<G_Y, V_B>>}, FALSE)}
    \cup {Call(f, {}, FALSE) : f \in F_BIG .. (F_BIG + Len(BigLocals) - 1)}
    \cup {Call(f, {<<G_X, 1>>}, FALSE) : f \in F_JUMP .. (F_JUMP + 6)}
    \cup {Call(f, ArgPuts \cup {<<G_X, V_A>>, <<G_Y, V_B>>, <<G_Z, V_STORE>>,
                                 <<G_W, -7>>}, FALSE) :
            f \in F_STOREV .. (F_STOREV + 3)}
    \cup {Call(f, {<<GLOBAL_ADDR_SELF, e>>, <<GLOBAL_ADDR_TIME, time>>,
                   <<G_X, V_B>>}, FALSE) :
            f \in F_STATE .. (F_STATE + 1), e \in -1 .. NumEntities,
            time \in {0, V_A}}
    \cup {Call(f, {<<G_X, V_A>>, <<G_Y, V_B>>}, FALSE) :
            f \in F_OOB .. (F_OOB + 3)}

NextOps ==
    \/ \E call \in OpCalls : ExecuteProgram(call)
    \/ Step

SpecOps == Init /\ [][NextOps]_vars

----------------------------------------------------------------------------
(* Vocabulary of the properties *)

Finished == status \in {"ok", "err", "panic"}

\* The statement the next iteration dispatches
Fetched == Statements[pc + 1]

\* An iteration that dispatches a statement: the guard let it through
Dispatching == status = "running" /\ runaway - 1 # 0 /\ PcOk(pc)

\* The frame a done/return pops
TopFrame == call_stack[Len(call_stack)]

ReturnSlot == GLOBAL_ADDR_RETURN .. (GLOBAL_ADDR_RETURN + 2)

\* [arg_start, arg_start + locals) of function f
LocalsRegion(f) == Defs(f).arg_start .. (Defs(f).arg_start + Defs(f).locals - 1)

\* Number of argument words enter_function copies for f
RECURSIVE ArgWordsFrom(_, _)
ArgWordsFrom(def, arg) ==
    IF arg >= def.argc THEN 0
    ELSE def.argsz[arg + 1] + ArgWordsFrom(def, arg + 1)

ArgWords(f) == ArgWordsFrom(Defs(f), 0)

\* The functions of the program that read and write only their locals
LocalsOnlyFns == FrameFns \cup {F_VEC}

\* The call could not start because the call stack had no room left
NoRoom == status = "err" /\ err = "call stack overflow"

----------------------------------------------------------------------------
(* C1: when a function entered through a call statement at index p executes *)
(* done/return, execution resumes in the caller at p + 1 with               *)
(* current_function restored to the caller (frames pushed by a call         *)
(* statement hold p as instr_id).                                           *)
C1_ReturnResumesAfterCall ==
    [][(/\ Dispatching
        /\ Fetched.op \in {"Done", "Return"}
        /\ Len(call_stack) > exit_depth + 1
        /\ status' = "running")
       => (/\ pc' = TopFrame.instr_id + 1
           /\ current_function' = TopFrame.func_id)]_vars

(* C2: a program that jumps to itself makes execute_program terminate by    *)
(* returning a runaway error value to the host.                             *)
C2_SelfJumpReturnsRunawayError ==
    (f_arg = F_SELFJUMP /\ Finished) => (status = "err" /\ err = "runaway program")

(* C3, as claimed: after a successful call of a function that reads and     *)
(* writes only its locals, every global outside [arg_start, arg_start +     *)
(* locals) and outside the return slot is as before the call, for every     *)
(* combination of locals (0 included) and argc/argsz.                       *)
C3_FrameForEveryDef ==
    (f_arg \in LocalsOnlyFns /\ status = "ok")
        => \A a \in GlobalAddrs \ (LocalsRegion(f_arg) \cup ReturnSlot) :
                globals[a] = globals_at_entry[a]

(* C3, amended: the same, for the functions with locals >= 1 and for those  *)
(* that copy no argument word.                                              *)
C3_FrameWhenArgsLandInLocals ==
    (/\ f_arg \in LocalsOnlyFns
     /\ status = "ok"
     /\ (Defs(f_arg).locals >= 1 \/ ArgWords(f_arg) = 0))
        => \A a \in GlobalAddrs \ (LocalsRegion(f_arg) \cup ReturnSlot) :
                globals[a] = globals_at_entry[a]

\* A function with one local and a three-word formal returned, having
\* doubled its local and restored it
C3_Witness ==
    /\ f_arg \in FrameFns
    /\ status = "ok"
    /\ Defs(f_arg).locals = 1
    /\ ArgWords(f_arg) = 3
    /\ globals[GLOBAL_ADDR_RETURN] # globals_at_entry[GLOBAL_ADDR_RETURN]
    /\ globals[G_LOCALS] = V_LOCAL

(* C4: in every reachable state call_stack.len() <= 32 and                  *)
(* local_stack.len() <= 2048.                                               *)
C4_StackDepthsBounded ==
    /\ Len(call_stack) <= MAX_CALL_STACK_DEPTH
    /\ Len(local_stack) <= MAX_LOCAL_STACK_DEPTH

(* C5: a function with one vector formal that returns its parameter, called *)
(* with ARG0..ARG0+2 = (x, y, z), leaves RETURN..RETURN+2 = (x, y, z).      *)
C5_VectorArgComesBack ==
    (f_arg = F_VEC /\ status = "ok")
        => \A c \in 0 .. 2 :
              globals[GLOBAL_ADDR_RETURN + c] = globals_at_entry[GLOBAL_ADDR_ARG_0 + c]

(* C6: when the branch of `if` or `ifnot` is not taken, pc advances by 1.   *)
C6_NotTakenAdvancesPc ==
    [][(/\ Dispatching
        /\ \/ Fetched.op = "If" /\ globals[Fetched.a] = 0
           \/ Fetched.op = "IfNot" /\ globals[Fetched.a] # 0
        /\ runaway' = runaway - 1)
       => pc' = pc + 1]_vars

(* C7: the loop `ifnot cond +2; goto -1` ends normally after one evaluation *)
(* of ifnot when cond = 0, and with cond = 1 iterates until the runaway     *)
(* guard reports a runaway error.                                           *)
C7_TwoStatementLoop ==
    (f_arg = F_LOOP /\ Finished /\ ~NoRoom)
        => IF globals_at_entry[G_X] = 0
              THEN status = "ok" /\ runaway = RunawayStart - 2
              ELSE status = "err" /\ err = "runaway program"


(* C8: a top-level call of `add_f x y z; return z 0 0` dispatches both      *)
(* statements in order from the function's first statement and ends with    *)
(* RETURN = globals[x] + globals[y], the call stack back at its entry       *)
(* depth; the call fails only when the call stack had no room for it.       *)
C8_FloatAdd ==
    f_arg = F_ADD =>
        /\ status = "running" =>
              \/ pc = Defs(F_ADD).first_statement /\ runaway = RunawayStart
              \/ /\ pc = Defs(F_ADD).first_statement + 1
                 /\ runaway = RunawayStart - 1
                 /\ globals[G_Z] = globals_at_entry[G_X] + globals_at_entry[G_Y]
        /\ Finished =>
              \/ NoRoom /\ depth_at_entry[1] >= MAX_CALL_STACK_DEPTH - 1
              \/ /\ status = "ok"
                 /\ runaway = RunawayStart - 2
                 /\ globals[GLOBAL_ADDR_RETURN] =
                        globals_at_entry[G_X] + globals_at_entry[G_Y]
                 /\ Len(call_stack) = depth_at_entry[1]

\* 1.5 + 2.25 came back as 3.75
C8_Witness ==
    /\ f_arg = F_ADD
    /\ status = "ok"
    /\ globals_at_entry[G_X] = V_A
    /\ globals_at_entry[G_Y] = V_B
    /\ globals[GLOBAL_ADDR_RETURN] = 75

\* The entity and the field the host named for F_ADDR
AddrEntity == globals_at_entry[G_ENT]
AddrField == globals_at_entry[G_Y]

(* C9: `address e_addr f_addr d; storep_f src d 0` with entity e and field  *)
(* f writes the float at globals[src] into field f of entity e and changes  *)
(* no other field of any entity.                                            *)
C9_IndirectStore ==
    (f_arg = F_ADDR /\ EntityOk(AddrEntity) /\ FieldOk(AddrField)) =>
        /\ Finished => (status = "ok" \/ NoRoom)
        /\ entities =
              IF status = "ok" \/ (status = "running" /\ Fetched.op = "Return")
                  THEN [entities_at_entry EXCEPT
                            ![AddrEntity][AddrField] = globals_at_entry[G_X]]
                  ELSE entities_at_entry

\* Field 1 of entity 2 took the stored float, field 2 of entity 1 did not
C9_Witness ==
    /\ f_arg = F_ADDR
    /\ status = "ok"
    /\ AddrEntity = 2
    /\ AddrField = 1
    /\ entities[2][1] = V_STORE
    /\ entities[1][2] = 0

\* The `address` statement of F_ADDR has been executed in this call
AddressDone ==
    /\ f_arg = F_ADDR
    /\ \/ status = "ok"
       \/ status = "running" /\ pc > Defs(F_ADDR).first_statement

(* C10: entity-field address packing round-trips: for e < num_entities and  *)
(* f < stride the word `address` stores is e * stride + f, unpacking it     *)
(* gives (e, f) back, and no other in-range pair packs to the same word.    *)
C10_PackRoundTrip ==
    (AddressDone /\ EntityOk(AddrEntity) /\ FieldOk(AddrField)) =>
        /\ globals[G_W] = AddrEntity * EntStride + AddrField
        /\ ent_fld_addr_from_i32(globals[G_W]) =
              [entity_id |-> AddrEntity, field_addr |-> AddrField]
        /\ \A e \in EntityIds, fld \in FieldAddrs :
              ent_fld_addr_to_i32(e, fld) = globals[G_W]
                  => (e = AddrEntity /\ fld = AddrField)

\* (2, 1) was packed by `address` and is about to be unpacked by storep_f
C10_Witness ==
    /\ AddressDone
    /\ status = "running"
    /\ Fetched.op = "StorePF"
    /\ AddrEntity = 2
    /\ AddrField = 1
    /\ globals[G_W] = 2 * EntStride + 1

----------------------------------------------------------------------------
\* The next iteration dispatches a call statement whose function is the
\* built-in cvar
CallsCvar ==
    /\ Dispatching
    /\ Fetched.op \in CallOps
    /\ globals[Fetched.a] = F_CVAR

\* ARG0 holds the string id of a registered cvar name
Arg0NamesCvar ==
    LET s_id == StringTable_id_from_i32(StringTable, globals[GLOBAL_ADDR_ARG_0])
    IN  /\ s_id.ok
        /\ StringTable_get(StringTable, s_id.val).val \in DOMAIN Cvars

(* C11: a callN statement whose function is the built-in cvar, with ARG0    *)
(* holding the string id of a registered cvar name, writes the value of     *)
(* that cvar to GLOBAL_ADDR_RETURN and changes no other global, pushes no   *)
(* call-stack frame and no locals, and advances pc by exactly 1.            *)
C11_CvarBuiltin ==
    [][(CallsCvar /\ Arg0NamesCvar /\ runaway' = runaway - 1)
       => (/\ globals' =
                [globals EXCEPT ![GLOBAL_ADDR_RETURN] =
                    Cvars[StringTable_get(StringTable,
                                          globals[GLOBAL_ADDR_ARG_0]).val]]
           /\ call_stack' = call_stack
           /\ local_stack' = local_stack
           /\ current_function' = current_function
           /\ pc' = pc + 1
           /\ status' = "running")]_vars

\* call1 of cvar with ARG0 = id of "sv_gravity" came back with 800.0, passed
\* on by the return that follows the call
C11_Witness ==
    /\ f_arg = F_CALL1
    /\ status = "ok"
    /\ globals_at_entry[G_CALLEE] = F_CVAR
    /\ globals_at_entry[GLOBAL_ADDR_ARG_0] = S_SV_GRAVITY
    /\ globals_at_entry[GLOBAL_ADDR_RETURN] = V_A
    /\ globals[GLOBAL_ADDR_RETURN] = V_GRAVITY
    /\ runaway = RunawayStart - 2

----------------------------------------------------------------------------
(* C12: string table round trip: for every string s and every sequence of   *)
(* inserts made before, insert(s) returns an id with get(id) = s and        *)
(* id_from_i32(id as i32) = Ok(id).                                         *)
C12_InsertGetRoundTrip ==
    /\ table_status = "ok"
    /\ \A i \in 1 .. Len(inserts) :
          i = Len(inserts) =>
              /\ StringTable_get(StringTable, inserts[i].id)
                    = Some(inserts[i].value)
              /\ StringTable_id_from_i32(StringTable, AsI32(inserts[i].id))
                    = Ok(inserts[i].id)

(* C13: for every sequence of inserts of arbitrary strings, the empty       *)
(* string included, each call completes and returns an id >= the lump       *)
(* length and strictly greater than every id returned before.               *)
C13_InsertIdsStrictlyIncrease ==
    /\ table_status = "ok"
    /\ \A j \in 1 .. Len(inserts) :
          /\ inserts[j].id >= Len(lump)
          /\ \A i \in 1 .. (j - 1) : inserts[i].id < inserts[j].id

----------------------------------------------------------------------------
(* C14: every statement execute_program dispatches ends in ok (execution    *)
(* goes on or the call returns Ok) or in an error value returned to the     *)
(* host; no dispatch aborts the process.                                    *)
C14_DispatchNeverAborts ==
    [][(Dispatching /\ runaway' = runaway - 1) => status' # "panic"]_vars

\* The next iteration dispatches a call statement whose function id operand
\* reads 0
CallsNull ==
    /\ Dispatching
    /\ Fetched.op \in CallOps
    /\ globals[Fetched.a] = 0

(* C15: a callN statement whose function id operand reads 0 makes           *)
(* execute_program return an error to the host, no function entered.        *)
C15_NullCallReturnsError ==
    [][(CallsNull /\ runaway' = runaway - 1)
       => (/\ status' = "err"
           /\ call_stack' = call_stack
           /\ current_function' = current_function)]_vars

----------------------------------------------------------------------------
\* The next iteration dispatches a direct or indirect store whose third
\* argument is not zero
StoreWithArg3 ==
    /\ Dispatching
    /\ \E k \in 1 .. Len(StoreOps) : Fetched.op = StoreOps[k]
    /\ Fetched.c # 0

(* C16: every direct store (store_f/v/s/ent/fld/fnc) and indirect store     *)
(* (storep_f/v/s/ent/fnc) executed with a nonzero third argument returns    *)
(* an error and leaves all globals and all entity fields unchanged.         *)
C16_StoreArg3Rejected ==
    [][(StoreWithArg3 /\ runaway' = runaway - 1)
       => (/\ status' = "err"
           /\ globals' = globals
           /\ entities' = entities)]_vars

\* storep_v with third argument -1 was refused: nothing was written
C16_Witness ==
    /\ status = "err"
    /\ err = "storep_v: nonzero arg3"
    /\ PcOk(pc)
    /\ Fetched.op = "StorePV"
    /\ Fetched.c = -1
    /\ globals = globals_at_entry
    /\ entities = entities_at_entry

----------------------------------------------------------------------------
\* The buffer is one the format rules out: a wrong version or crc, a field
\* definition with the save bit, too few globals
Malformed ==
    \/ load_input.version # VERSION
    \/ load_input.crc # CRC
    \/ \E i \in 1 .. Len(load_input.fielddefs) :
          HasSaveFlag(load_input.fielddefs[i])
    \/ load_input.globals_count < GLOBAL_STATIC_COUNT

(* C17: load fails with a load error, returning no handles, for every       *)
(* input whose version is not 6, whose crc is not 5927, that contains a     *)
(* field definition with the save bit set, or whose globals count is below  *)
(* GLOBAL_STATIC_COUNT.                                                     *)
C17_MalformedInputIsLoadError ==
    (load_result # NotLoaded /\ Malformed) => load_result.kind = "err"

(* C18: after a successful load the first_statement of every QuakeC         *)
(* function definition is less than the number of loaded statements.        *)
C18_EntryPointsInsideStatements ==
    load_result.kind = "ok" =>
        \A i \in 1 .. Len(load_result.defs) :
            load_result.defs[i].kind = "QuakeC"
                => load_result.defs[i].first_statement < load_result.statements

----------------------------------------------------------------------------
\* The frames the call stack held when the current execute_program started
OuterFrames == context_at_entry.cs

(* C19: execute_program is reentrant: started while the call stack holds    *)
(* d > 0 frames it goes on only above depth d and returns as soon as the    *)
(* depth is back to d, the d outer frames unchanged and pc and              *)
(* current_function equal to their values when it started.                  *)
C19_ReentrantExecute ==
    Len(OuterFrames) > 0 =>
        /\ status = "running" =>
              /\ Len(call_stack) > Len(OuterFrames)
              /\ SubSeq(call_stack, 1, Len(OuterFrames)) = OuterFrames
        /\ status = "ok" =>
              /\ call_stack = OuterFrames
              /\ pc = context_at_entry.pc
              /\ current_function = context_at_entry.cf

\* add_f; return ran above the frame an earlier, failed call had left, and
\* the call returned at depth 1 with pc and current_function of that call
C19_Witness ==
    /\ f_arg = F_ADD
    /\ status = "ok"
    /\ Len(OuterFrames) = 1
    /\ call_stack = OuterFrames
    /\ runaway = RunawayStart - 2
    /\ current_function = F_BADSTORE
    /\ pc = Defs(F_BADSTORE).first_statement
    /\ globals[GLOBAL_ADDR_RETURN] = V_A + V_B

----------------------------------------------------------------------------
\* The text parsed is the name of the action in some letter case
NameOfAction ==
    to_lowercase(parse_input.text) = Action_to_string(parse_input.action)

(* C20: Action::to_string yields the lowercase command name of the action   *)
(* (Forward gives "forward") and parsing is its inverse: for each of the    *)
(* 19 actions a, Action::from_str(a.to_string()) = a, also when the text    *)
(* is written in any letter case.                                           *)
C20_ActionNameRoundTrip ==
    /\ Cardinality(Actions) = 19
    /\ Action_to_string("Forward") = <<"f", "o", "r", "w", "a", "r", "d">>
    /\ \A a \in Actions : to_lowercase(Action_to_string(a)) = Action_to_string(a)
    /\ (parse_result # NotParsed /\ NameOfAction)
          => parse_result = Ok(parse_input.action)

\* "ShowTeamScores" was parsed to Action::ShowTeamScores
C20_Witness ==
    /\ parse_input.action = "ShowTeamScores"
    /\ parse_input.text =
          <<"S", "h", "o", "w", "T", "e", "a", "m", "S", "c", "o", "r", "e", "s">>
    /\ parse_result = Ok("ShowTeamScores")

----------------------------------------------------------------------------
(* C21: for every BindTarget::Action { trigger, action }, to_string is "+"  *)
(* followed by the action name when trigger is Pressed and "-" followed by  *)
(* the action name when trigger is Released (Pressed/Forward gives          *)
(* "+forward").                                                             *)
C21_BindTargetActionText ==
    /\ BindTarget_to_string(BindAction("Pressed", "Forward"))
          = <<"+", "f", "o", "r", "w", "a", "r", "d">>
    /\ (bind_text # None /\ bind_target.kind = "Action") =>
          /\ Head(bind_text.val) =
                (IF bind_target.trigger = "Pressed" THEN "+" ELSE "-")
          /\ Tail(bind_text.val) = Action_to_string(bind_target.action)

\* Released/ShowScores was written as "-showscores"
C21_Witness ==
    /\ bind_target = BindAction("Released", "ShowScores")
    /\ bind_text = Some(<<"-", "s", "h", "o", "w", "s", "c", "o", "r", "e", "s">>)

----------------------------------------------------------------------------
(* C22: the closure returned by cmd_screenshot sets the shared              *)
(* screenshot_path to Some(path) when called: with one argument the path is *)
(* that argument, with no argument a generated default; called with more    *)
(* than one argument it returns the usage message and leaves                *)
(* screenshot_path unchanged.                                               *)
C22_ScreenshotCommand ==
    [][/\ Len(cmd_args') = 1 => screenshot_path' = Some(cmd_args'[1])
       /\ Len(cmd_args') = 0 =>
             /\ screenshot_path'.some
             /\ Len(screenshot_path'.val) = 3
             /\ screenshot_path'.val[1] = "richter-"
             /\ screenshot_path'.val[3] = ".png"
       /\ Len(cmd_args') > 1 =>
             /\ cmd_output' = Usage
             /\ screenshot_path' = screenshot_path]_vars

\* `screenshot a.png b.png` after `screenshot shots/c.png`: the usage message
\* came back and the path asked for first is still there
C22_Witness ==
    /\ cmd_args = <<(<<"a.png">>), (<<"b.png">>)>>
    /\ cmd_output = Usage
    /\ screenshot_path = Some(<<"shots/c.png">>)

----------------------------------------------------------------------------
\* The next iteration dispatches a call statement whose function is a
\* QuakeC function of the program
CallsQuakeC ==
    /\ Dispatching
    /\ Fetched.op \in CallOps
    /\ globals[Fetched.a] \in FunctionIds \ {0}
    /\ Defs(globals[Fetched.a]).kind = "QuakeC"

(* C23: when a callN statement enters a QuakeC function, the next statement *)
(* dispatched is statements[def.first_statement] of the callee, as for a    *)
(* function entered at the top level; no callee statement is skipped.       *)
C23_CalleeStartsAtFirstStatement ==
    [][(CallsQuakeC /\ runaway' = runaway - 1 /\ status' = "running")
       => (/\ current_function' = globals[Fetched.a]
           /\ pc' = Defs(globals[Fetched.a]).first_statement)]_vars

----------------------------------------------------------------------------
\* What enter_function(f) reports in the step that runs it, by the depths of
\* the two stacks before it
EnterReports(f) ==
    IF Len(call_stack) + 1 >= MAX_CALL_STACK_DEPTH
        THEN status' = "err" /\ err' = "call stack overflow"
    ELSE IF Len(local_stack) + Defs(f).locals > MAX_LOCAL_STACK_DEPTH
        THEN status' = "err" /\ err' = "local stack overflow"
    ELSE IF LocalsRegion(f) \subseteq GlobalAddrs
        THEN /\ status' = "running"
             /\ current_function' = f
             /\ Len(call_stack') = Len(call_stack) + 1
             /\ Len(local_stack') = Len(local_stack) + Defs(f).locals
    ELSE status' = "err" /\ err' = "address"

(* C24: enter_function reports call stack overflow exactly when the call    *)
(* stack length after pushing the new frame is >= 32 (31 frames were        *)
(* already active), and otherwise reports local stack overflow exactly when *)
(* local_stack.len() + def.locals > 2048; in all other cases with valid     *)
(* addresses it succeeds.  It is run by the host's call and by a call       *)
(* statement of a QuakeC function.                                          *)
C24_EnterFunctionLimits ==
    [][/\ calls' = calls + 1 => EnterReports(f_arg')
       /\ (CallsQuakeC /\ runaway' = runaway - 1)
             => EnterReports(globals[Fetched.a])]_vars

\* 2029 locals on a local stack of 20 words: one word too many
C24_Witness ==
    /\ status = "err"
    /\ err = "local stack overflow"
    /\ depth_at_entry[1] < MAX_CALL_STACK_DEPTH - 1
    /\ depth_at_entry[2] > 0
    /\ depth_at_entry[2] + Defs(f_arg).locals = MAX_LOCAL_STACK_DEPTH + 1

----------------------------------------------------------------------------
(* C25: locals are saved and restored around a call: for a function f       *)
(* entered by enter_function and left by leave_function, every global word  *)
(* in [f.arg_start, f.arg_start + f.locals) that is not part of the return  *)
(* slot holds after leave_function the bits it held immediately before      *)
(* enter_function, whatever the body or the argument copy wrote there, and  *)
(* in recursive calls each level restores the values of its own caller.     *)
C25_LocalsRestored ==
    [][(Len(call_stack') < Len(call_stack) /\ status' \in {"running", "ok"})
       => \A a \in LocalsRegion(current_function) \ ReturnSlot :
             globals'[a] = globals_at_enter[Len(globals_at_enter)][a]]_vars

\* The inner level of F_RR has returned the double of its local: the outer
\* level, about to go on, finds in the local the value it had written, not
\* the one of the host
C25_Witness ==
    /\ f_arg = F_RR
    /\ status = "running"
    /\ Len(call_stack) = depth_at_entry[1] + 1
    /\ pc = Defs(F_RR).first_statement + 3
    /\ globals[G_CALLEE] = F_CVAR
    /\ globals[GLOBAL_ADDR_RETURN] = V_A + V_A
    /\ globals[G_LOCALS] = V_A
    /\ globals_at_entry[G_LOCALS] = V_LOCAL

----------------------------------------------------------------------------
\* The next iteration dispatches a done or return that goes through
Returns ==
    /\ Dispatching
    /\ Fetched.op \in {"Done", "Return"}

\* The words at the operands a, b, c of the statement fetched
OperandWords == <<globals[Fetched.a], globals[Fetched.b], globals[Fetched.c]>>

(* C26, as claimed: done/return reads the three words at a, b, c before any *)
(* write, stores them at RETURN, RETURN+1, RETURN+2 and only then restores  *)
(* the locals, so the returned words are the values the function computed,  *)
(* also when a, b or c lie inside its locals region or the return slot.     *)
C26_ReturnedWordsAreComputed ==
    [][(Returns /\ runaway' = runaway - 1 /\ status' \in {"running", "ok"})
       => \A k \in 0 .. 2 :
             globals'[GLOBAL_ADDR_RETURN + k] = OperandWords[k + 1]]_vars

(* C26, amended: the same, for a function whose locals region does not      *)
(* reach into the return slot.                                              *)
C26_ReturnedWordsUnlessSlotIsLocal ==
    [][(/\ Returns
        /\ LocalsRegion(current_function) \cap ReturnSlot = {}
        /\ runaway' = runaway - 1
        /\ status' \in {"running", "ok"})
       => \A k \in 0 .. 2 :
             globals'[GLOBAL_ADDR_RETURN + k] = OperandWords[k + 1]]_vars

\* `return RETURN+1 RETURN+2 RETURN` rotated the return slot
C26_Witness ==
    /\ f_arg = F_ROT
    /\ status = "ok"
    /\ globals_at_entry[GLOBAL_ADDR_RETURN] = V_A
    /\ globals[GLOBAL_ADDR_RETURN] = V_B
    /\ globals[GLOBAL_ADDR_RETURN + 1] = V_STORE
    /\ globals[GLOBAL_ADDR_RETURN + 2] = V_A

----------------------------------------------------------------------------
\* The next iteration dispatches an if, an ifnot or a goto
Jumps ==
    /\ Dispatching
    /\ Fetched.op \in {"If", "IfNot", "Goto"}

\* The jump fetched is taken: a goto, an if on a word that is not 0, an
\* ifnot on the word 0
JumpTaken ==
    \/ Fetched.op = "Goto"
    \/ Fetched.op = "If" /\ globals[Fetched.a] # 0
    \/ Fetched.op = "IfNot" /\ globals[Fetched.a] = 0

\* The operand that holds the address of the delta
DeltaAddr == IF Fetched.op = "Goto" THEN Fetched.a ELSE Fetched.b

(* C27: a taken if/ifnot and every goto set pc to pc + delta, where delta   *)
(* is the signed integer read from the global at the operand address (b     *)
(* for if/ifnot, a for goto), and the pc increment after the dispatch is    *)
(* skipped; a negative operand address is reported as an address error.     *)
C27_TakenJumps ==
    [][(Jumps /\ runaway' = runaway - 1)
       => IF Fetched.op # "Goto" /\ Fetched.a < 0
              THEN status' = "err" /\ err' = "address" /\ pc' = pc
          ELSE IF JumpTaken
              THEN IF DeltaAddr < 0
                       THEN status' = "err" /\ err' = "address" /\ pc' = pc
                       ELSE status' = "running" /\ pc' = pc + globals[DeltaAddr]
          ELSE TRUE]_vars

\* The if of F_JUMP went two statements forward and the ifnot there one
\* statement back, to the return
C27_Witness ==
    /\ f_arg = F_JUMP
    /\ status = "running"
    /\ globals[G_MINUS1] = -1
    /\ pc = Defs(F_JUMP).first_statement + 1
    /\ runaway = RunawayStart - 2

----------------------------------------------------------------------------
\* The next iteration dispatches a store_v with third argument 0 whose six
\* addresses are addresses of globals
StoresVector ==
    /\ Dispatching
    /\ Fetched.op = "StoreV"
    /\ Fetched.c = 0
    /\ \A k \in 0 .. 2 : AddrOk(Fetched.a + k) /\ AddrOk(Fetched.b + k)

\* globals with the three words from src on copied to dest on
VectorCopied(src, dest) ==
    [x \in GlobalAddrs |->
        IF x \in dest .. (dest + 2) THEN globals[src + (x - dest)]
        ELSE globals[x]]

----------------------------------------------------------------------------
\* The next iteration dispatches a state statement whose operand is the
\* address of a global
StatesFrame ==
    /\ Dispatching
    /\ Fetched.op = "State"
    /\ AddrOk(Fetched.a)

\* The entity id in the `self` global
SelfId == globals[GLOBAL_ADDR_SELF]

(* C29: the state opcode sets, on the entity whose id is in the `self`      *)
(* global, nextthink to globals.time + 0.1 and frame to globals[a]; it      *)
(* changes no other entity and no global, leaves the call and local stacks  *)
(* unchanged and advances pc by 1; if `self` does not name an existing      *)
(* entity it returns an error and changes nothing.                          *)
C29_StateOpcode ==
    [][(StatesFrame /\ runaway' = runaway - 1)
       => /\ globals' = globals
          /\ call_stack' = call_stack
          /\ local_stack' = local_stack
          /\ current_function' = current_function
          /\ IF EntityOk(SelfId)
                 THEN /\ status' = "running"
                      /\ pc' = pc + 1
                      /\ entities' =
                            [entities EXCEPT
                                ![SelfId][FIELD_NEXTTHINK] =
                                    globals[GLOBAL_ADDR_TIME] + TENTH,
                                ![SelfId][FIELD_FRAME] = globals[Fetched.a]]
                 ELSE /\ status' = "err"
                      /\ pc' = pc
                      /\ entities' = entities]_vars

\* state at time 1.5 with self = 2 and frame 2.25: entity 2 thinks next at
\* 1.6 in frame 2.25, entity 1 is as it was
C29_Witness ==
    /\ f_arg = F_STATE
    /\ status = "ok"
    /\ globals[GLOBAL_ADDR_SELF] = 2
    /\ globals[GLOBAL_ADDR_TIME] = V_A
    /\ entities[2][FIELD_NEXTTHINK] = V_A + TENTH
    /\ entities[2][FIELD_FRAME] = V_B
    /\ entities[1] = entities_at_entry[1]
    /\ entities[2] # entities_at_entry[2]

----------------------------------------------------------------------------
(* C30: the runaway budget is per execute_program invocation: the counter   *)
(* starts at 100000 on each entry (a call made while frames are on the      *)
(* call stack gets its own fresh counter), is decremented once per loop     *)
(* iteration before the statement is fetched, and the abort happens in the  *)
(* iteration where it reaches 0, so at most 99 999 statements are           *)
(* dispatched by one invocation.                                            *)
C30_RunawayBudget ==
    /\ dispatched <= RunawayStart - 1
    /\ status = "running" =>
          /\ runaway >= 1
          /\ dispatched = RunawayStart - runaway
    /\ runaway = 0 <=> (status = "panic" /\ err = "runaway program")
    /\ runaway = 0 => dispatched = RunawayStart - 1

\* `goto 0` was dispatched 99 999 times, then the guard ended the call
C30_Witness ==
    /\ f_arg = F_SELFJUMP
    /\ status = "panic"
    /\ err = "runaway program"
    /\ runaway = 0
    /\ dispatched = RunawayStart - 1

----------------------------------------------------------------------------
\* What the input of the last handle_input is bound to
HandledTarget == bindings[game_op.input]

(* C31: handle_input on an input bound to Action { trigger, action } sets   *)
(* action_state(action) to (state == trigger) and changes no other action   *)
(* state; on an input bound to ConsoleInput it pushes the text to the       *)
(* console only when state is Pressed; on an unbound input it changes       *)
(* nothing.                                                                  *)
C31_HandleInput ==
    [][game_op'.op = "handle_input" =>
          LET target == bindings[game_op'.input]
              state == game_op'.state
          IN  /\ bindings' = bindings
              /\ mouse_delta' = mouse_delta
              /\ impulse' = impulse
              /\ (target.some /\ target.val.kind = "Action") =>
                    /\ action_states'[target.val.action] =
                           (state = target.val.trigger)
                    /\ \A a \in Actions \ {target.val.action} :
                           action_states'[a] = action_states[a]
                    /\ console' = console
              /\ (target.some /\ target.val.kind = "ConsoleInput") =>
                    /\ action_states' = action_states
                    /\ console' = IF state = "Pressed"
                                      THEN console \o <<target.val.text>>
                                      ELSE console
              /\ ~target.some =>
                    /\ action_states' = action_states
                    /\ console' = console]_vars

\* The input bound to "-forward" was released: forward is on, jump is as it
\* was before (on), and the console holds what an earlier press stuffed
C31_Witness ==
    /\ game_op.op = "handle_input"
    /\ game_op.state = "Released"
    /\ HandledTarget = Some(BindAction("Released", "Forward"))
    /\ action_states["Forward"]
    /\ action_states["Jump"]
    /\ Len(console) = 1

----------------------------------------------------------------------------
\* text is a decimal numeral, a "+" before it allowed
IsNumeral(text) ==
    LET digits == IF Len(text) > 0 /\ text[1] = "+" THEN Tail(text) ELSE text
    IN  Len(digits) > 0 /\ \A i \in 1 .. Len(digits) : IsDigit(digits[i])

Pow10(n) == IF n = 0 THEN 1 ELSE IF n = 1 THEN 10 ELSE IF n = 2 THEN 100 ELSE 1000

\* The number a numeral of at most four digits denotes: digit times place
RECURSIVE PlaceSum(_, _)
PlaceSum(digits, i) ==
    IF i > Len(digits) THEN 0
    ELSE DigitValue(digits[i]) * Pow10(Len(digits) - i) + PlaceSum(digits, i + 1)

NumberOf(text) == PlaceSum(IF text[1] = "+" THEN Tail(text) ELSE text, 1)

(* C32: the impulse is a one-frame pulse: the `impulse` command sets it     *)
(* only when given exactly one argument that parses as a number 0..255      *)
(* (otherwise it is left unchanged), it keeps that value through any        *)
(* number of input events, and after refresh() impulse() is 0 and           *)
(* mouse_delta() is (0, 0).                                                  *)
C32_ImpulseIsOneFramePulse ==
    [][/\ game_op'.op = "impulse" =>
             LET args == game_op'.args
             IN  IF /\ Len(args) = 1
                    /\ IsNumeral(args[1])
                    /\ NumberOf(args[1]) \in 0 .. 255
                     THEN impulse' = NumberOf(args[1])
                     ELSE impulse' = impulse
       /\ game_op'.op \in {"handle_input", "mouse_motion"} =>
             impulse' = impulse
       /\ game_op'.op = "refresh" =>
             /\ impulse' = 0
             /\ mouse_delta' = <<0, 0>>]_vars

\* `impulse 255` was given, the mouse moved along both axes, and a press of
\* the input bound to the console text came last: the impulse is still 255
C32_Witness ==
    /\ game_op.op = "handle_input"
    /\ game_op.state = "Pressed"
    /\ HandledTarget.some
    /\ HandledTarget.val.kind = "ConsoleInput"
    /\ impulse = 255
    /\ mouse_delta = <<1, 1>>
    /\ Len(console) = MaxStuffed

----------------------------------------------------------------------------
WheelInputs == {"MouseWheel(Up)", "MouseWheel(Down)"}

(* C40, as claimed: GameInput::refresh never turns an action on: for every  *)
(* binding map and every prior sequence of input events, no action_state    *)
(* that is false before refresh() is true after it, and the bindings        *)
(* themselves are unchanged.                                                 *)
C40_RefreshNeverTurnsOn ==
    [][game_op'.op = "refresh" =>
          /\ bindings' = bindings
          /\ \A a \in Actions : action_states'[a] => action_states[a]]_vars

(* C40, amended: refresh leaves the bindings unchanged, and an action_state *)
(* that is false before refresh() is true after it only for an action that  *)
(* a wheel input is bound to with the trigger Released; with no such        *)
(* binding refresh turns no action on.                                       *)
C40_RefreshTurnsOnOnlyReleaseBound ==
    [][game_op'.op = "refresh" =>
          /\ bindings' = bindings
          /\ \A a \in Actions :
                (action_states'[a] /\ ~action_states[a]) =>
                    \E w \in WheelInputs :
                        bindings[w] = Some(BindAction("Released", a))]_vars

\* A refresh with the wheel bound to "-forward" and the key to "+jump":
\* forward is on, jump is on as the key press left it
C40_Witness ==
    /\ game_op.op = "refresh"
    /\ bindings["MouseWheel(Up)"] = Some(BindAction("Released", "Forward"))
    /\ bindings["Key(W)"] = Some(BindAction("Pressed", "Jump"))
    /\ action_states["Forward"]
    /\ action_states["Jump"]

----------------------------------------------------------------------------
(* C33: after any execute_program call that returns Ok, call_stack.len()    *)
(* and local_stack.len() both equal their values at entry to that call      *)
(* (every frame and every saved local pushed during the call has been       *)
(* popped).                                                                  *)
C33_OkRestoresDepths ==
    status = "ok" =>
        /\ Len(call_stack) = depth_at_entry[1]
        /\ Len(local_stack) = depth_at_entry[2]

\* The recursion that returns, called on a context on which an earlier
\* failed call had left a frame and saved locals: it returned Ok with both
\* stacks as deep as it found them
C33_Witness ==
    /\ status = "ok"
    /\ f_arg = F_RR
    /\ dispatched > 2
    /\ depth_at_entry[1] > 0
    /\ depth_at_entry[2] > 0
    /\ Len(call_stack) = depth_at_entry[1]
    /\ Len(local_stack) = depth_at_entry[2]

----------------------------------------------------------------------------
(* C34: after execute_program returns an error raised while one or more     *)
(* functions are active (a store with nonzero arg3, an out-of-bounds         *)
(* address), the call stack and the local stack are back at the depths they *)
(* had on entry, so failing calls in a row never accumulate frames and a    *)
(* later call on the same context has the full 32-frame / 2048-word         *)
(* capacity.                                                                 *)
C34_ErrorRestoresDepths ==
    (status = "err" /\ dispatched > 0) =>
        /\ Len(call_stack) = depth_at_entry[1]
        /\ Len(local_stack) = depth_at_entry[2]

----------------------------------------------------------------------------
(* C35: enter_function is atomic on failure: when it returns an error       *)
(* (unknown function id, call stack overflow, local stack overflow, or a    *)
(* bad global address while saving locals or copying arguments),            *)
(* call_stack, local_stack, pc, current_function and globals are all        *)
(* unchanged from before the call.  It is run by the host's call, after     *)
(* the host has written its words to globals, and by a call statement of a  *)
(* QuakeC function.                                                          *)
C35_EnterFunctionAtomic ==
    [][/\ (calls' = calls + 1 /\ status' = "err") =>
             /\ call_stack' = call_stack
             /\ local_stack' = local_stack
             /\ pc' = pc
             /\ current_function' = current_function
             /\ globals' = globals_at_entry'
       /\ (CallsQuakeC /\ runaway' = runaway - 1 /\ status' = "err") =>
             /\ call_stack' = call_stack
             /\ local_stack' = local_stack
             /\ pc' = pc
             /\ current_function' = current_function
             /\ globals' = globals]_vars

----------------------------------------------------------------------------
(* C36: execute_program never fetches a statement at an index outside the   *)
(* statements array: whenever a jump delta, a fall-through past the last    *)
(* statement or an entry point would move pc below 0 or to                  *)
(* >= statements.len(), the call ends with an error value instead of        *)
(* reading statements[pc].                                                   *)
C36_PcOutsideEndsInError ==
    [][(status = "running" /\ ~PcOk(pc) /\ runaway' = runaway - 1)
          => status' = "err"]_vars

----------------------------------------------------------------------------
\* The next iteration dispatches a call statement whose function is a
\* built-in
CallsBuiltIn ==
    /\ Dispatching
    /\ Fetched.op \in CallOps
    /\ globals[Fetched.a] \in FunctionIds
    /\ Defs(globals[Fetched.a]).kind = "BuiltIn"

(* C39: enter_function is only ever reached with a QuakeC function: a       *)
(* function id that resolves to a BuiltIn, whether it is the f passed by    *)
(* the host to execute_program or the operand of a callN statement, is      *)
(* never passed to enter_function and never pushes a call-stack frame.      *)
C39_BuiltInNeverEntered ==
    [][((calls' = calls + 1 /\ f_arg' \in FunctionIds
            /\ Defs(f_arg').kind = "BuiltIn")
        \/ (CallsBuiltIn /\ runaway' = runaway - 1))
       => (/\ call_stack' = call_stack
           /\ err' # "built-in functions should not be called with enter_function()")]_vars

----------------------------------------------------------------------------
\* The target of the last find and the id it returned
FoundTarget == found.val.target
FoundId == found.val.result.val

\* target occurs in the lump, as a whole string or as a part of one
OccursInLump(target) ==
    \E i \in 0 .. (Len(lump) - Len(target)) :
        SubSeq(lump, i + 1, i + Len(target)) = target

IsPrefix(p, text) == Len(p) <= Len(text) /\ SubSeq(text, 1, Len(p)) = p

----------------------------------------------------------------------------
\* The string table after the step
StringTableNext == [lump |-> lump', byte_count |-> byte_count', table |-> table']

\* The ids a string table of the model can hold, and one past them
StringIds == 0 .. (Len(lump) + MaxInserts * MaxValueLen + 1)

\* What an insert must keep for the ids that were valid before it
IdsKept ==
    /\ lump' = lump
    /\ \A id \in StringIds :
          /\ StringTable_get(StringTable, id).some =>
                 StringTable_get(StringTableNext, id)
                     = StringTable_get(StringTable, id)
          /\ StringTable_id_from_i32(StringTable, id).ok =>
                 StringTable_id_from_i32(StringTableNext, id).ok
    /\ \A id \in DOMAIN table' : id >= Len(lump)

\* Every insert that returns keeps the ids that were valid before it
ReturningInsertKeepsIds == [][table_status' = "ok" => IdsKept]_vars

(* C38: existing string ids are stable: for every id for which get(id)      *)
(* returns Some(s) or id_from_i32 accepts it, any later sequence of inserts *)
(* leaves get(id) == Some(s) and the id still accepted; inserts never alter *)
(* the lump bytes and never shadow an id inside the lump.                   *)
C38_StringIdsStable == [][IdsKept]_vars

====
